---- MODULE Spec2Model ----
(***************************************************************************)
(* Model of mcp-folk: the tool layer (src/mcp_folk/server.py) and the      *)
(* transport client (src/mcp_folk/api_client.py).                          *)
(*                                                                         *)
(* Strings the code inspects character by character (ids, trigger times,   *)
(* recurrence rules) are sequences of one-character strings.  Strings the  *)
(* code only forwards are TLA+ strings.                                    *)
(***************************************************************************)
EXTENDS Integers, Sequences, FiniteSets, TLC

VARIABLES
    envKey,     \* os.environ["FOLK_API_KEY"] ("" when unset)
    client,     \* server.py global _client: NoClient or [api_key, session]
    pc,         \* position of the current invocation: "idle", "awaiting", "done"
    op,         \* the current invocation (operation name and arguments)
    cont,       \* what the invocation does when the awaited _request returns
    pending,    \* the outbound HTTP request in flight (NoReq when none)
    calls,      \* outbound HTTP requests transmitted by the current invocation
    replies,    \* what came back for them, in order (a response or a failure)
    outcome,    \* how the invocation ended: returned value or raised exception
    sessions,   \* every aiohttp.ClientSession constructed so far, in order
    tasks,      \* the concurrent callers of the client: where each one is
    wire,       \* the outbound calls of the concurrent callers and their sessions
    ctx_errors, \* the messages the current invocation handed to ctx.error
    upstream,   \* the workspace's groups, now and before they last changed
    clock,      \* time.monotonic(), in seconds
    middleware, \* the HTTPAuthAndRateLimitMiddleware instance of the HTTP app
    passed,     \* the HTTP requests handed to the application (call_next)
    http_response   \* the response to the latest HTTP request

vars ==
    <<envKey, client, pc, op, cont, pending, calls, replies, outcome, sessions, tasks, wire,
      ctx_errors, upstream, clock, middleware, passed, http_response>>

\* The HTTP transport is followed by the actions of SpecHttp.
httpVars == <<clock, middleware, passed, http_response>>

\* The session objects and the concurrent callers are followed by the
\* actions of SpecSession; the other actions follow one invocation.
sessionVars == <<sessions, tasks, wire>>

----------------------------------------------------------------------------
(* Characters *)

Digit == {"0", "1", "2", "3", "4", "5", "6", "7", "8", "9"}

LowerAlpha ==
    {"a", "b", "c", "d", "e", "f", "g", "h", "i", "j", "k", "l", "m",
     "n", "o", "p", "q", "r", "s", "t", "u", "v", "w", "x", "y", "z"}

LowerHex == Digit \cup {"a", "b", "c", "d", "e", "f"}

DigitVal ==
    ("0" :> 0) @@ ("1" :> 1) @@ ("2" :> 2) @@ ("3" :> 3) @@ ("4" :> 4) @@
    ("5" :> 5) @@ ("6" :> 6) @@ ("7" :> 7) @@ ("8" :> 8) @@ ("9" :> 9)

DigitChar == <<"0", "1", "2", "3", "4", "5", "6", "7", "8", "9">>

Rep(c, n) == [i \in 1..n |-> c]

AllIn(s, from, to, set) == \A i \in from..to : s[i] \in set

----------------------------------------------------------------------------
(* Identifier validator: server.py _FOLK_ID_RE and _validate_folk_id *)

\* The five hyphen-separated hex groups of the pattern, 8-4-4-4-12, matched
\* on s[from .. from+35].
UuidAt(s, from) ==
    /\ AllIn(s, from, from + 7, LowerHex)
    /\ s[from + 8] = "-"
    /\ AllIn(s, from + 9, from + 12, LowerHex)
    /\ s[from + 13] = "-"
    /\ AllIn(s, from + 14, from + 17, LowerHex)
    /\ s[from + 18] = "-"
    /\ AllIn(s, from + 19, from + 22, LowerHex)
    /\ s[from + 23] = "-"
    /\ AllIn(s, from + 24, from + 35, LowerHex)

\* ^[a-z]{2,4}_<uuid> matched from the start of s, the match ending at
\* position end.
PatternEndsAt(s, end) ==
    \E k \in 2..4 :
        /\ end = k + 37
        /\ Len(s) >= end
        /\ AllIn(s, 1, k, LowerAlpha)
        /\ s[k + 1] = "_"
        /\ UuidAt(s, k + 2)

\* _FOLK_ID_RE.match(value): Python's "$" (no MULTILINE flag) matches at the
\* end of the string and also just before a newline that ends the string.
_FOLK_ID_RE_match(s) ==
    \E end \in 0..Len(s) :
        /\ PatternEndsAt(s, end)
        /\ \/ end = Len(s)
           \/ end = Len(s) - 1 /\ s[Len(s)] = "\n"

\* A validator that accepts the ids of people only.
_validate_folk_id_PersonPrefix(value) ==
    _FOLK_ID_RE_match(value) /\ SubSeq(value, 1, 4) = <<"p", "e", "r", "_">>

\* _validate_folk_id(value, entity): TRUE when it returns, FALSE when it
\* raises ValueError.  entity is used in the text of the error only.
_validate_folk_id(value) == _FOLK_ID_RE_match(value)

----------------------------------------------------------------------------
(* Trigger times: api_client.py create_reminder, lines 505-514.            *)
(* datetime.fromisoformat, datetime.astimezone and datetime.strftime are   *)
(* the Python standard library's; they are modelled by what they compute.  *)

Text_UtcOffset == <<"+", "0", "0", ":", "0", "0">>

\* trigger_time.replace("Z", "+00:00"): every "Z" of the text, wherever it is.
RECURSIVE ReplaceZ(_)
ReplaceZ(s) ==
    IF s = <<>> THEN <<>>
    ELSE (IF Head(s) = "Z" THEN Text_UtcOffset ELSE <<Head(s)>>) \o ReplaceZ(Tail(s))

IsNum(s, from, n) == from + n - 1 <= Len(s) /\ AllIn(s, from, from + n - 1, Digit)

RECURSIVE NumAt(_, _, _)
NumAt(s, from, n) ==
    IF n = 0 THEN 0
    ELSE 10 * NumAt(s, from, n - 1) + DigitVal[s[from + n - 1]]

\* datetime's calendar arithmetic (proleptic Gregorian ordinals).
_is_leap(year) == year % 4 = 0 /\ (year % 100 # 0 \/ year % 400 = 0)

_DAYS_IN_MONTH == <<31, 28, 31, 30, 31, 30, 31, 31, 30, 31, 30, 31>>

_DAYS_BEFORE_MONTH == <<0, 31, 59, 90, 120, 151, 181, 212, 243, 273, 304, 334>>

_days_in_month(year, month) ==
    IF month = 2 /\ _is_leap(year) THEN 29 ELSE _DAYS_IN_MONTH[month]

_days_before_year(year) ==
    LET y == year - 1 IN y * 365 + (y \div 4) - (y \div 100) + (y \div 400)

_days_before_month(year, month) ==
    _DAYS_BEFORE_MONTH[month] + (IF month > 2 /\ _is_leap(year) THEN 1 ELSE 0)

_ymd2ord(year, month, day) ==
    _days_before_year(year) + _days_before_month(year, month) + day

_ord2ymd(ordinal) ==
    LET n0   == ordinal - 1
        n400 == n0 \div _days_before_year(401)
        r400 == n0 % _days_before_year(401)
        n100 == r400 \div _days_before_year(101)
        r100 == r400 % _days_before_year(101)
        n4   == r100 \div _days_before_year(5)
        r4   == r100 % _days_before_year(5)
        n1   == r4 \div 365
        n    == r4 % 365
        year == n400 * 400 + 1 + n100 * 100 + n4 * 4 + n1
        leapyear == n1 = 3 /\ (n4 # 24 \/ n100 = 3)
        month0 == (n + 50) \div 32
        preceding0 == _DAYS_BEFORE_MONTH[month0]
                      + (IF month0 > 2 /\ leapyear THEN 1 ELSE 0)
        month == IF preceding0 > n THEN month0 - 1 ELSE month0
        preceding == IF preceding0 > n
                     THEN preceding0 - (_DAYS_IN_MONTH[month]
                                        + (IF month = 2 /\ leapyear THEN 1 ELSE 0))
                     ELSE preceding0
    IN  IF n1 = 4 \/ n100 = 4
        THEN [year |-> year - 1, month |-> 12, day |-> 31]
        ELSE [year |-> year, month |-> month, day |-> n - preceding + 1]

\* date.max.toordinal()
_MAXORDINAL == _ymd2ord(9999, 12, 31)

NotParsed == [ok |-> FALSE]

\* The UTC offset that ends the text at position from: nothing (a naive time),
\* or a sign and HH:MM.  minutes is the offset east of UTC.
ParseTz(s, from) ==
    IF from = Len(s) + 1 THEN [ok |-> TRUE, aware |-> FALSE, minutes |-> 0]
    ELSE IF /\ Len(s) = from + 5
            /\ s[from] \in {"+", "-"}
            /\ IsNum(s, from + 1, 2)
            /\ s[from + 3] = ":"
            /\ IsNum(s, from + 4, 2)
            /\ NumAt(s, from + 4, 2) <= 59
    THEN [ok |-> TRUE, aware |-> TRUE,
          minutes |-> (IF s[from] = "-" THEN -1 ELSE 1)
                        * (60 * NumAt(s, from + 1, 2) + NumAt(s, from + 4, 2))]
    ELSE NotParsed

\* datetime.fromisoformat(text) on the forms YYYY-MM-DD and
\* YYYY-MM-DD<sep>HH:MM:SS[+HH:MM | -HH:MM]; [ok |-> FALSE] is ValueError.
fromisoformat(s) ==
    IF ~ (/\ Len(s) >= 10
          /\ IsNum(s, 1, 4) /\ s[5] = "-" /\ IsNum(s, 6, 2) /\ s[8] = "-"
          /\ IsNum(s, 9, 2))
    THEN NotParsed
    ELSE
    LET year == NumAt(s, 1, 4)
        month == NumAt(s, 6, 2)
        day == NumAt(s, 9, 2)
        dateOk == /\ year >= 1
                  /\ month \in 1..12
                  /\ day >= 1 /\ day <= _days_in_month(year, month)
    IN  IF ~ dateOk THEN NotParsed
        ELSE IF Len(s) = 10
        THEN [ok |-> TRUE, year |-> year, month |-> month, day |-> day,
              hour |-> 0, minute |-> 0, second |-> 0,
              aware |-> FALSE, offset |-> 0]
        ELSE IF ~ (/\ Len(s) >= 19
                   /\ IsNum(s, 12, 2) /\ s[14] = ":" /\ IsNum(s, 15, 2)
                   /\ s[17] = ":" /\ IsNum(s, 18, 2))
        THEN NotParsed
        ELSE
        LET hour == NumAt(s, 12, 2)
            minute == NumAt(s, 15, 2)
            second == NumAt(s, 18, 2)
            tz == ParseTz(s, 20)
        IN  IF hour > 23 \/ minute > 59 \/ second > 59 \/ ~ tz.ok
                \/ (tz.ok /\ (tz.minutes >= 1440 \/ tz.minutes <= -1440))
            THEN NotParsed
            ELSE [ok |-> TRUE, year |-> year, month |-> month, day |-> day,
                  hour |-> hour, minute |-> minute, second |-> second,
                  aware |-> tz.aware, offset |-> tz.minutes]

\* dt.astimezone(UTC): dt minus its offset, by ordinal arithmetic; a naive dt
\* is taken to be in the process's local zone (localOffset minutes east).
\* [ok |-> FALSE] is OverflowError (result before year 1 or after year 9999).
astimezone(dt, localOffset) ==
    LET off == IF dt.aware THEN dt.offset ELSE localOffset
        secs == dt.hour * 3600 + dt.minute * 60 + dt.second - off * 60
        carry == IF secs >= 0 THEN secs \div 86400
                 ELSE - ((86400 - 1 - secs) \div 86400)
        days == _ymd2ord(dt.year, dt.month, dt.day) + carry
        rem == secs - carry * 86400
        ymd == _ord2ymd(days)
    IN  IF days < 1 \/ days > _MAXORDINAL THEN [ok |-> FALSE]
        ELSE [ok |-> TRUE, year |-> ymd.year, month |-> ymd.month, day |-> ymd.day,
              hour |-> rem \div 3600, minute |-> (rem % 3600) \div 60,
              second |-> rem % 60]

\* n as exactly w decimal digits (%m, %d, %H, %M, %S and a padded %Y).
RECURSIVE Pad(_, _)
Pad(n, w) == IF w = 0 THEN <<>> ELSE Pad(n \div 10, w - 1) \o <<DigitChar[(n % 10) + 1]>>

\* n in decimal with no leading zeros.
RECURSIVE Dec(_)
Dec(n) == IF n < 10 THEN <<DigitChar[n + 1]>> ELSE Dec(n \div 10) \o <<DigitChar[(n % 10) + 1]>>

\* strftime's %Y is the C library's: four digits where the library pads the
\* year (padYear), the bare decimal year where it does not (glibc).
FormatYear(year, padYear) == IF padYear THEN Pad(year, 4) ELSE Dec(year)

\* dt_utc.strftime("%Y%m%dT%H%M%S")
strftime(dt, padYear) ==
    FormatYear(dt.year, padYear) \o Pad(dt.month, 2) \o Pad(dt.day, 2) \o <<"T">>
        \o Pad(dt.hour, 2) \o Pad(dt.minute, 2) \o Pad(dt.second, 2)

Text_DtstartPrefix ==
    <<"D", "T", "S", "T", "A", "R", "T", ";", "T", "Z", "I", "D", "=", "U", "T", "C", ":">>

Text_RruleOnce ==
    <<"R", "R", "U", "L", "E", ":", "F", "R", "E", "Q", "=", "D", "A", "I", "L", "Y",
      ";", "C", "O", "U", "N", "T", "=", "1">>

\* f"DTSTART;TZID=UTC:{dtstart}\nRRULE:FREQ=DAILY;COUNT=1"
recurrence_rule(dtstart) == Text_DtstartPrefix \o dtstart \o <<"\n">> \o Text_RruleOnce

\* The trigger time forwarded as it came, unparsed.
BuildRecurrenceRule_Unparsed(trigger_time, localOffset, padYear) ==
    [ok |-> TRUE, rule |-> recurrence_rule(trigger_time)]

\* Lines 505-514 of create_reminder: the rule, or the exception raised.
BuildRecurrenceRule(trigger_time, localOffset, padYear) ==
    LET dt == fromisoformat(ReplaceZ(trigger_time))
        dt_utc == astimezone(dt, localOffset)
    IN  IF ~ dt.ok THEN [ok |-> FALSE, error |-> "ValueError"]
        ELSE IF ~ dt_utc.ok THEN [ok |-> FALSE, error |-> "OverflowError"]
        ELSE [ok |-> TRUE, rule |-> recurrence_rule(strftime(dt_utc, padYear))]

----------------------------------------------------------------------------
(* Transport core: api_client.py FolkClient._ensure_session and _request   *)

NoClient == [exists |-> FALSE]

NoSession == [open |-> FALSE]

NoBody == [present |-> FALSE]

JsonBody(fields) == [present |-> TRUE, fields |-> fields]

NoParams == <<>>

PyNone == [t |-> "None"]

EmptyDict == [t |-> "object", error |-> [k |-> "absent"], message |-> [k |-> "absent"],
              data |-> [present |-> FALSE]]

NoReq == [method |-> "none"]

\* f"Bearer {self.api_key}"
Bearer(api_key) == <<"Bearer ", api_key>>

\* FolkClient(api_key=api_key): lines 50-59.
FolkClient(api_key) == [exists |-> TRUE, api_key |-> api_key, session |-> NoSession]

\* The default headers of the shared session (lines 70-75).
SessionHeaders(api_key) ==
    ("User-Agent" :> <<"mcp-server-folk/0.1.0">>) @@
    ("Accept" :> <<"application/json">>) @@
    ("Content-Type" :> <<"application/json">>) @@
    ("Authorization" :> Bearer(api_key))

\* The shared session's headers used for a DELETE as well.
DeleteHeaders_WithContentType(api_key) == SessionHeaders(api_key)

\* delete_headers (lines 117-121).
DeleteHeaders(api_key) ==
    ("User-Agent" :> <<"mcp-server-folk/0.1.0">>) @@
    ("Accept" :> <<"application/json">>) @@
    ("Authorization" :> Bearer(api_key))

\* _ensure_session: the session is created when there is none.
_ensure_session(cl) ==
    IF cl.session.open THEN cl
    ELSE [cl EXCEPT !.session = [open |-> TRUE, headers |-> SessionHeaders(cl.api_key)]]

\* The params sent as they are given.
CleanParams_KeepsNull(params) == params

\* params = {k: v for k, v in params.items() if v is not None} (lines 100-101)
CleanParams(params) ==
    [k \in {x \in DOMAIN params : params[x] # PyNone} |-> params[k]]

\* A query builder that takes any value.
QueryAccepted_Any(params) == TRUE

\* The query aiohttp builds from params (yarl): a value must be a str, an int
\* or a float; for any other, a dict among them, yarl raises TypeError.
QueryAccepted(params) == \A k \in DOMAIN params : params[k].t = "value"

\* TypeError("Invalid variable type: value should be str, int or float, got
\* {v!r} of type {cls}") for a value v that yarl does not take.
QueryTypeError(params) ==
    [kind |-> "raise", type |-> "TypeError", status |-> 0,
     message |-> <<"Invalid variable type: value should be str, int or float, got ",
                   params[CHOOSE k \in DOMAIN params : params[k].t # "value"]>>,
     details |-> [t |-> "None"]]

\* The headers aiohttp transmits: the given ones, and the JSON payload's
\* Content-Type when a json body is sent and none is given.
WireHeaders(headers, json_data) ==
    IF json_data.present /\ "Content-Type" \notin DOMAIN headers
    THEN headers @@ ("Content-Type" :> <<"application/json">>)
    ELSE headers

\* The request _request puts on the wire (lines 107-124 and 146); cl is the
\* client after _ensure_session.  A DELETE without a body goes through a
\* session of its own with delete_headers, every other request through the
\* client's session.
WireRequest(cl, method, path, params, json_data) ==
    IF method = "DELETE" /\ ~ json_data.present
    THEN [method |-> method, path |-> path, params |-> CleanParams(params),
          json |-> json_data, via |-> "own",
          headers |-> WireHeaders(DeleteHeaders(cl.api_key), json_data)]
    ELSE [method |-> method, path |-> path, params |-> CleanParams(params),
          json |-> json_data, via |-> "shared",
          headers |-> WireHeaders(cl.session.headers, json_data)]

\* await response.json() of aiohttp: ContentTypeError (a ClientError) unless
\* the response's Content-Type is application/json; None for an empty body;
\* json.JSONDecodeError for a body that is not JSON.
response_json(resp) ==
    IF resp.ctype # "application/json" THEN [ok |-> FALSE, exc |-> "ContentTypeError"]
    ELSE IF resp.body.kind = "empty" THEN [ok |-> TRUE, value |-> PyNone]
    ELSE IF resp.body.kind = "text" THEN [ok |-> FALSE, exc |-> "JSONDecodeError"]
    ELSE [ok |-> TRUE, value |-> resp.body.value]

\* error_msg of lines 150-159 (and 131-140).
error_msg(result) ==
    IF result.t # "object" THEN <<"Unknown error">>
    ELSE IF result.error.k # "absent"
    THEN IF result.error.k = "dict"
         THEN IF result.error.hasMessage THEN <<result.error.text>>
              ELSE <<"str(error_obj)">>
         ELSE <<result.error.text>>
    ELSE IF result.message.k # "absent" THEN <<result.message.text>>
    ELSE <<"Unknown error">>

Raise(type, status, message, details) ==
    [kind |-> "raise", type |-> type, status |-> status, message |-> message,
     details |-> details]

Return(value) == [kind |-> "return", value |-> value]

FolkAPIError(status, message, details) == Raise("FolkAPIError", status, message, details)

\* except ClientError as e: raise FolkAPIError(500, f"Network error: {str(e)}")
NetworkError(text) == FolkAPIError(500, <<"Network error: ", text>>, PyNone)

\* The exceptions of aiohttp that are a ClientError: a failed connection
\* (ClientConnectorError) and ContentTypeError.  The total timeout of
\* ClientTimeout(total=...) is raised as asyncio.TimeoutError, which is none.
ClientErrors == {"ClientConnectorError", "ContentTypeError"}

\* The request raises exc inside the try of lines 103-166: a ClientError is
\* caught at 165, anything else leaves _request as it is.
TransportFailure(exc) ==
    IF exc \in ClientErrors THEN NetworkError(exc)
    ELSE Raise(exc, 0, <<exc>>, PyNone)

\* Lines 130-144 and 147-163: what _request does with a decoded body.
CheckStatus(status, result) ==
    IF status >= 400 THEN FolkAPIError(status, error_msg(result), result)
    ELSE Return(result)

\* The body decoded before the status is looked at, on the DELETE path too.
_request_response_ParseFirst(req, resp) ==
    IF resp.net THEN TransportFailure(resp.exc)
    ELSE LET decoded == response_json(resp)
         IN  IF decoded.ok THEN CheckStatus(resp.status, decoded.value)
             ELSE IF decoded.exc = "ContentTypeError" THEN NetworkError("ContentTypeError")
             ELSE Raise("JSONDecodeError", 0, <<"JSONDecodeError">>, PyNone)

\* What _request does with the response to req (lines 122-166).
_request_response(req, resp) ==
    IF resp.net THEN TransportFailure(resp.exc)
    ELSE IF req.via = "own" /\ resp.status = 204 THEN Return(EmptyDict)
    ELSE LET decoded == response_json(resp)
         IN  IF decoded.ok THEN CheckStatus(resp.status, decoded.value)
             ELSE IF decoded.exc = "ContentTypeError" THEN NetworkError("ContentTypeError")
             ELSE Raise("JSONDecodeError", 0, <<"JSONDecodeError">>, PyNone)

----------------------------------------------------------------------------
(* Inputs *)

\* Longest assignee list a caller passes.
MaxAssignees == 2

Some(v) == [t |-> "value", v |-> v]

Uuid(c) ==
    Rep(c, 8) \o <<"-">> \o Rep("a", 4) \o <<"-">> \o <<"4", "b", "0", "f">> \o <<"-">>
        \o Rep("9", 4) \o <<"-">> \o Rep(c, 12)

Id_per == <<"p", "e", "r", "_">> \o Uuid("1")
Id_com == <<"c", "o", "m", "_">> \o Uuid("2")
Id_grp == <<"g", "r", "p", "_">> \o Uuid("c")
Id_name == <<"J", "o", "h", "n", " ", "S", "m", "i", "t", "h">>
Id_short == <<"p", "e", "r", "_", "1", "2", "3">>
Id_upper == <<"P", "E", "R", "_">> \o Uuid("1")
Id_upperHex == <<"p", "e", "r", "_">> \o Uuid("A")
Id_nonHex == <<"p", "e", "r", "_">> \o Uuid("g")
Id_prefix1 == <<"p", "_">> \o Uuid("1")
Id_prefix5 == <<"p", "e", "r", "s", "o", "_">> \o Uuid("1")
Id_digitPrefix == <<"p", "3", "r", "_">> \o Uuid("1")
Id_noPrefix == Uuid("1")
Id_hyphen == <<"p", "e", "r", "-">> \o Uuid("1")
Id_newline == Id_per \o <<"\n">>
Id_space == Id_per \o <<" ">>
Id_long == Id_per \o <<"1">>
Id_empty == <<>>

IdInputs ==
    {Id_per, Id_com, Id_grp, Id_name, Id_short, Id_upper, Id_upperHex, Id_nonHex,
     Id_prefix1, Id_prefix5, Id_digitPrefix, Id_noPrefix, Id_hyphen, Id_newline,
     Id_space, Id_long, Id_empty}

\* Trigger times.  A well-formed one is drawn as its fields and written out as
\* text; the code is given the text only.
Dates ==
    {<<2026, 1, 15>>, <<2026, 1, 1>>, <<2025, 12, 31>>, <<2024, 2, 29>>,
     <<2026, 3, 1>>, <<999, 6, 15>>, <<1, 1, 1>>, <<9999, 12, 31>>}

Times == {<<0, 0, 0>>, <<9, 0, 0>>, <<17, 30, 0>>, <<23, 59, 59>>}

\* Z, numeric offsets (minutes east of UTC) and no offset at all.
Zones ==
    {[kind |-> "Z", minutes |-> 0], [kind |-> "offset", minutes |-> 0],
     [kind |-> "offset", minutes |-> 480], [kind |-> "offset", minutes |-> -480],
     [kind |-> "offset", minutes |-> 330], [kind |-> "naive", minutes |-> 0]}

ZoneText(z) ==
    IF z.kind = "Z" THEN <<"Z">>
    ELSE IF z.kind = "naive" THEN <<>>
    ELSE LET m == IF z.minutes < 0 THEN - z.minutes ELSE z.minutes
         IN  <<IF z.minutes < 0 THEN "-" ELSE "+">> \o Pad(m \div 60, 2) \o <<":">>
                 \o Pad(m % 60, 2)

TriggerText(d, t, z) ==
    Pad(d[1], 4) \o <<"-">> \o Pad(d[2], 2) \o <<"-">> \o Pad(d[3], 2) \o <<"T">>
        \o Pad(t[1], 2) \o <<":">> \o Pad(t[2], 2) \o <<":">> \o Pad(t[3], 2)
        \o ZoneText(z)

Trigger(d, t, z) ==
    [text |-> TriggerText(d, t, z), iso |-> TRUE, date |-> d, time |-> t, zone |-> z]

WellFormedTriggers == {Trigger(d, t, z) : d \in Dates, t \in Times, z \in Zones}

NoZone == [kind |-> "none", minutes |-> 0]

BadTrigger(text) ==
    [text |-> text, iso |-> FALSE, date |-> <<0, 0, 0>>, time |-> <<0, 0, 0>>,
     zone |-> NoZone]

\* Texts that are no ISO-8601 timestamp: words, an empty text, a month 13, a
\* 29 February of a common year, an hour 25, a minute 60, a one-digit month,
\* slashes, a lower-case z, an offset of a whole day.
BadTriggers ==
    {BadTrigger(<<"t", "o", "m", "o", "r", "r", "o", "w">>),
     BadTrigger(<<>>),
     BadTrigger(TriggerText(<<2026, 13, 1>>, <<9, 0, 0>>, [kind |-> "Z", minutes |-> 0])),
     BadTrigger(TriggerText(<<2026, 2, 29>>, <<9, 0, 0>>, [kind |-> "Z", minutes |-> 0])),
     BadTrigger(TriggerText(<<2026, 1, 15>>, <<25, 0, 0>>, [kind |-> "Z", minutes |-> 0])),
     BadTrigger(TriggerText(<<2026, 1, 15>>, <<9, 60, 0>>, [kind |-> "naive", minutes |-> 0])),
     BadTrigger(<<"2", "0", "2", "6", "-", "1", "-", "1", "5", "T", "0", "9", ":", "0", "0",
                  ":", "0", "0">>),
     BadTrigger(<<"1", "5", "/", "0", "1", "/", "2", "0", "2", "6", " ", "0", "9", ":",
                  "0", "0">>),
     BadTrigger(TriggerText(<<2026, 1, 15>>, <<9, 0, 0>>, [kind |-> "naive", minutes |-> 0])
                    \o <<"z">>),
     BadTrigger(TriggerText(<<2026, 1, 15>>, <<9, 0, 0>>,
                            [kind |-> "offset", minutes |-> 1440]))}

Triggers == WellFormedTriggers \cup BadTriggers

\* The trigger times the tools are exercised with: every bad one, and a time
\* with an offset, one that crosses the year, a naive one and one whose UTC
\* value is before year 1.
CoreTriggers ==
    BadTriggers \cup
    {Trigger(<<2026, 1, 15>>, <<17, 30, 0>>, [kind |-> "offset", minutes |-> 480]),
     Trigger(<<2025, 12, 31>>, <<23, 59, 59>>, [kind |-> "offset", minutes |-> -480]),
     Trigger(<<2026, 1, 15>>, <<9, 0, 0>>, [kind |-> "naive", minutes |-> 0]),
     Trigger(<<1, 1, 1>>, <<0, 0, 0>>, [kind |-> "offset", minutes |-> 480])}

\* Zones the process may run in (minutes east of UTC); a naive time is read
\* in the local zone.
LocalOffsets == {-480, 0, 60}

UserIds == {"usr_1", "usr_2"}

RECURSIVE SeqsUpTo(_, _)
SeqsUpTo(S, n) ==
    IF n = 0 THEN {<<>>}
    ELSE SeqsUpTo(S, n - 1) \cup {Append(q, x) : q \in SeqsUpTo(S, n - 1), x \in S}

\* assigned_user_ids: None (not supplied) or a list of user ids.
AssigneeInputs == {PyNone} \cup {Some(q) : q \in SeqsUpTo(UserIds, MaxAssignees)}

Visibilities == {"public", "private"}

\* Upstream responses: JSON bodies (envelopes with data, the error envelope's
\* shapes, an array), an empty body and a body that is not JSON.
Absent == [k |-> "absent"]

JObject(error, message, data) ==
    [kind |-> "json",
     value |-> [t |-> "object", error |-> error, message |-> message, data |-> data]]

NoData == [present |-> FALSE]

JsonBodies ==
    {JObject(Absent, Absent, [present |-> TRUE, id |-> i]) : i \in {"id_A", "id_B"}}
    \cup
    {JObject([k |-> "dict", hasMessage |-> TRUE, text |-> "nested message"], Absent, NoData),
     JObject([k |-> "dict", hasMessage |-> FALSE, text |-> ""],
             [k |-> "str", text |-> "top message"], NoData),
     JObject([k |-> "str", text |-> "error text"], Absent, NoData),
     JObject(Absent, [k |-> "str", text |-> "top message"], NoData),
     JObject(Absent, Absent, NoData),
     [kind |-> "json", value |-> [t |-> "array"]]}

EmptyBody == [kind |-> "empty"]

TextBody == [kind |-> "text"]

Statuses == {200, 204, 400, 404, 500}

\* No response: the connection fails, or the call times out.
NetFailures == {[net |-> TRUE, exc |-> e] : e \in {"ClientConnectorError", "TimeoutError"}}

\* A 204 carries no body.  A body that is not JSON comes with either
\* Content-Type; a JSON body comes as application/json.
Responses ==
    {[net |-> FALSE, status |-> st, ctype |-> "application/json", body |-> b] :
        st \in Statuses \ {204}, b \in JsonBodies \cup {EmptyBody, TextBody}}
    \cup
    {[net |-> FALSE, status |-> st, ctype |-> "text/html", body |-> b] :
        st \in Statuses \ {204}, b \in {EmptyBody, TextBody}}
    \cup
    {[net |-> FALSE, status |-> 204, ctype |-> c, body |-> EmptyBody] :
        c \in {"application/json", "text/html", ""}}
    \cup NetFailures

\* The responses the recurrence-rule specification answers with.
RuleResponses ==
    {r \in Responses :
        \/ r.net
        \/ /\ r.status \in {200, 404}
           /\ r.body.kind = "json"
           /\ r.body.value.t = "object"
           /\ r.body.value.error.k = "absent"
           /\ r.body.value.message.k = "absent"}

\* A JSON body whose data is a listing.
ListBody(items) ==
    [kind |-> "json",
     value |-> [t |-> "object", error |-> Absent, message |-> Absent,
                data |-> [present |-> TRUE, items |-> items]]]

\* The responses the list operations and create_person are answered with.
QueryResponses ==
    {[net |-> FALSE, status |-> 200, ctype |-> "application/json", body |-> ListBody(<<>>)],
     [net |-> FALSE, status |-> 200, ctype |-> "application/json",
      body |-> JObject(Absent, Absent, [present |-> TRUE, id |-> "id_A"])],
     [net |-> FALSE, status |-> 404, ctype |-> "application/json",
      body |-> JObject(Absent, [k |-> "str", text |-> "top message"], NoData)],
     [net |-> TRUE, exc |-> "ClientConnectorError"]}

\* limit, cursor and combinator as a caller passes them; None is null.
LimitInputs == {PyNone, Some(0), Some(20)}

CursorInputs == {PyNone, Some(""), Some("cur_1")}

CombinatorInputs == {PyNone, Some("and"), Some("or")}

\* A dict, as the sequence of its (key, value) items in insertion order.
PyDict(items) == [t |-> "dict", items |-> items]

\* filters: None, {}, literal values, one and two operators, a null literal
\* and a null operand, the mapping operand the group tools pass, an
\* operator in capitals, an empty operator mapping, and a field name that
\* holds brackets.
FilterInputs ==
    {PyNone,
     PyDict(<<>>),
     PyDict(<< <<"industry", Some("Tech")>> >>),
     PyDict(<< <<"fullName", PyDict(<< <<"like", Some("Jones")>> >>)>> >>),
     PyDict(<< <<"fullName", PyDict(<< <<"like", Some("Jo")>> >>)>>, <<"industry", Some("Tech")>> >>),
     PyDict(<< <<"createdAt", PyDict(<< <<"gt", Some("2024")>>, <<"lt", Some("2025")>> >>)>> >>),
     PyDict(<< <<"industry", PyNone>> >>),
     PyDict(<< <<"fullName", PyDict(<< <<"like", PyNone>> >>)>> >>),
     PyDict(<< <<"groups", PyDict(<< <<"in", PyDict(<< <<"id", Some("grp_1")>> >>)>> >>)>> >>),
     PyDict(<< <<"fullName", PyDict(<< <<"LIKE", Some("Jo")>> >>)>> >>),
     PyDict(<< <<"tags", PyDict(<<>>)>> >>),
     PyDict(<< <<"a", PyDict(<< <<"b", Some("x")>> >>)>>, <<"a][b", Some("y")>> >>)}

\* Longest group listing a response carries, and the longest one in which
\* every order of the names is tried.
MaxGroups == 11

MaxMixed == 3

Name_Sales == <<"S", "a", "l", "e", "s">>
Name_SalesPipeline == Name_Sales \o <<" ", "P", "i", "p", "e", "l", "i", "n", "e">>
Name_SALES == <<"S", "A", "L", "E", "S">>
Name_Demos == <<"D", "e", "m", "o", "s", " ", "M", "a", "n", "a", "g", "e", "m", "e", "n", "t">>

GroupNames == <<Name_Sales, Name_SalesPipeline, Name_Demos, Name_SALES>>

\* The groups of a listing with these names; ids are grp_1, grp_2, ...
GroupListing(names) ==
    [i \in DOMAIN names |-> [id |-> "grp_" \o ToString(i), name |-> names[i]]]

\* n groups, the four names in turn.
LongListing(n) == GroupListing([i \in 1..n |-> GroupNames[((i - 1) % 4) + 1]])

GroupListings ==
    {GroupListing(names) : names \in SeqsUpTo({GroupNames[i] : i \in 1..4}, MaxMixed)}
    \cup {LongListing(n) : n \in 0..MaxGroups}

\* The responses the group tools are answered with: listings, a body that
\* is no listing, an error status and a failed connection.
GroupResponses ==
    {[net |-> FALSE, status |-> 200, ctype |-> "application/json", body |-> ListBody(l)] :
        l \in GroupListings}
    \cup
    {[net |-> FALSE, status |-> 200, ctype |-> "application/json",
      body |-> ListBody(<<[id |-> "grp_1"]>>)],
     [net |-> FALSE, status |-> 404, ctype |-> "application/json",
      body |-> JObject(Absent, [k |-> "str", text |-> "top message"], NoData)],
     [net |-> TRUE, exc |-> "ClientConnectorError"]}

\* The names a caller asks for.
GroupQueries ==
    {<<"s", "a", "l", "e", "s">>, Name_Sales, <<"D", "e", "m", "o">>,
     <<"p", "i", "p", "e", "l", "i", "n", "e">>, <<"z", "z", "z">>, <<>>}

\* Longest people listing a response carries.
MaxPeople == 2

\* Upstream people: each of firstName, lastName and fullName null, empty or a
\* name.
People ==
    {[id |-> "id_A", firstName |-> first, lastName |-> last, fullName |-> full] :
        first \in {PyNone, Some(""), Some("Ann")},
        last \in {PyNone, Some("Lee")},
        full \in {PyNone, Some(""), Some("Ann B. Lee")}}

PersonBody(person) ==
    [kind |-> "json",
     value |-> [t |-> "object", error |-> Absent, message |-> Absent,
                data |-> [present |-> TRUE, id |-> person.id,
                          firstName |-> person.firstName, lastName |-> person.lastName,
                          fullName |-> person.fullName]]]

\* The responses the tools that show people are answered with.
PeopleResponses ==
    {[net |-> FALSE, status |-> 200, ctype |-> "application/json", body |-> ListBody(l)] :
        l \in SeqsUpTo(People, MaxPeople)}
    \cup
    {[net |-> FALSE, status |-> 200, ctype |-> "application/json", body |-> PersonBody(p)] :
        p \in People}
    \cup
    {[net |-> FALSE, status |-> 404, ctype |-> "application/json",
      body |-> JObject(Absent, [k |-> "str", text |-> "top message"], NoData)],
     [net |-> TRUE, exc |-> "ClientConnectorError"]}

\* The entries of the listings the browsing tools are answered with.
BrowseItems == {[id |-> "id_A", name |-> Some("Acme")], [id |-> "id_B"]}

\* The responses the browsing tools and get_notes are answered with.
BrowseResponses ==
    {[net |-> FALSE, status |-> 200, ctype |-> "application/json", body |-> ListBody(l)] :
        l \in SeqsUpTo(BrowseItems, MaxPeople)}
    \cup
    {[net |-> FALSE, status |-> 404, ctype |-> "application/json",
      body |-> JObject(Absent, [k |-> "str", text |-> "top message"], NoData)],
     [net |-> TRUE, exc |-> "ClientConnectorError"]}

\* Page numbers and page sizes: below, inside and above 1..50.
PageInputs == {1, 2, 3}

SizeInputs == {0, 1, 2, 50, 51}

\* create_person's arguments: None, an empty value, a value.
NameInputs == {PyNone, Some(""), Some("Ann")}

TextInputs == {PyNone, Some("text")}

ListInputs == {PyNone, [t |-> "value", v |-> <<>>], [t |-> "value", v |-> <<"item">>]}

CustomFieldInputs ==
    {PyNone, PyDict(<<>>), PyDict(<< <<"grp_1", PyDict(<< <<"Status", Some("Won")>> >>)>> >>)}

----------------------------------------------------------------------------
(* Client methods: what each hands to _request (api_client.py)             *)

Plan(method, path, params, json_data) ==
    [method |-> method, path |-> path, params |-> params, json |-> json_data]

\* f"/people/{person_id}" and the like; a collection path has no id part.
Path(base, id) == [base |-> base, id |-> id]

TruthyStr(x) == x # PyNone /\ x.v # ""

TruthyList(x) == x # PyNone /\ x.v # <<>>

\* body[key] = value for the keys whose condition holds
BodyOf(keys, value) == [k \in keys |-> value[k]]

TruthyDict(x) == x # PyNone /\ x.items # <<>>

\* params[key] = value
SetItem(params, key, value) == (key :> value) @@ params

\* for op, op_value in value.items(): params[f"filter[{key}][{op}]"] = op_value
RECURSIVE FilterOperators(_, _, _)
FilterOperators(params, key, ops) ==
    IF ops = <<>> THEN params
    ELSE FilterOperators(SetItem(params, "filter[" \o key \o "][" \o Head(ops)[1] \o "]",
                                 Head(ops)[2]),
                         key, Tail(ops))

\* for key, value in filters.items(): ... (lines 185-191, 302-308, 632-638)
RECURSIVE FilterParams(_, _)
FilterParams(params, items) ==
    IF items = <<>> THEN params
    ELSE LET key == Head(items)[1]
             value == Head(items)[2]
         IN  FilterParams(IF value.t = "dict" THEN FilterOperators(params, key, value.items)
                          ELSE SetItem(params, "filter[" \o key \o "]", value),
                          Tail(items))

\* The params of list_people, list_companies and list_deals.
ListParams(limit, cursor, combinator, filters) ==
    LET params == ("limit" :> limit) @@ ("cursor" :> cursor) @@ ("combinator" :> combinator)
    IN  IF TruthyDict(filters) THEN FilterParams(params, filters.items) ELSE params

FolkClient_list_people(limit, cursor, combinator, filters) ==
    Plan("GET", Path("/people", <<>>), ListParams(limit, cursor, combinator, filters), NoBody)

FolkClient_list_companies(limit, cursor, combinator, filters) ==
    Plan("GET", Path("/companies", <<>>), ListParams(limit, cursor, combinator, filters),
         NoBody)

\* f"/groups/{group_id}/{object_type}"
FolkClient_list_deals(group_id, object_type, limit, cursor, combinator, filters) ==
    Plan("GET", Path("/groups/{group_id}/" \o object_type, group_id),
         ListParams(limit, cursor, combinator, filters), NoBody)

FolkClient_list_groups(limit, cursor) ==
    Plan("GET", Path("/groups", <<>>), ("limit" :> limit) @@ ("cursor" :> cursor), NoBody)

\* The body keys of create_person and the truthiness test each value meets
\* (if first_name: ..., if emails: ..., if custom_fields: ...).
TruthyArgument(key, x) ==
    IF key \in {"firstName", "lastName", "jobTitle", "description"} THEN TruthyStr(x)
    ELSE IF key = "customFieldValues" THEN TruthyDict(x)
    ELSE TruthyList(x)

FolkClient_create_person(first_name, last_name, emails, phones, job_title, description, group_ids, company_ids, custom_fields) ==
    LET value == [firstName |-> first_name, lastName |-> last_name, emails |-> emails,
                  phones |-> phones, jobTitle |-> job_title, description |-> description,
                  groupIds |-> group_ids, companyIds |-> company_ids,
                  customFieldValues |-> custom_fields]
    IN  Plan("POST", Path("/people", <<>>), NoParams,
             JsonBody(BodyOf({k \in DOMAIN value : TruthyArgument(k, value[k])}, value)))

FolkClient_get_person(person_id) ==
    Plan("GET", Path("/people", person_id), NoParams, NoBody)

FolkClient_get_company(company_id) ==
    Plan("GET", Path("/companies", company_id), NoParams, NoBody)

FolkClient_update_person(person_id, first_name, last_name, emails, phones, job_title) ==
    LET value == [firstName |-> first_name, lastName |-> last_name, emails |-> emails,
                  phones |-> phones, jobTitle |-> job_title]
    IN  Plan("PATCH", Path("/people", person_id), NoParams,
             JsonBody(BodyOf({k \in DOMAIN value : value[k] # PyNone}, value)))

FolkClient_update_company(company_id, name, industry, urls) ==
    LET value == [name |-> name, industry |-> industry, urls |-> urls]
    IN  Plan("PATCH", Path("/companies", company_id), NoParams,
             JsonBody(BodyOf({k \in DOMAIN value : value[k] # PyNone}, value)))

FolkClient_delete_person(person_id) ==
    Plan("DELETE", Path("/people", person_id), NoParams, NoBody)

FolkClient_delete_company(company_id) ==
    Plan("DELETE", Path("/companies", company_id), NoParams, NoBody)

FolkClient_delete_note(note_id) ==
    Plan("DELETE", Path("/notes", note_id), NoParams, NoBody)

FolkClient_delete_reminder(reminder_id) ==
    Plan("DELETE", Path("/reminders", reminder_id), NoParams, NoBody)

FolkClient_create_note(entity_id, content, visibility) ==
    Plan("POST", Path("/notes", <<>>), NoParams,
         JsonBody([entity |-> [id |-> entity_id], content |-> content,
                   visibility |-> visibility]))

FolkClient_list_notes(limit, cursor, entity_id) ==
    Plan("GET", Path("/notes", <<>>),
         IF entity_id # PyNone /\ entity_id.v # <<>>
         THEN ("limit" :> Some(limit)) @@ ("cursor" :> cursor) @@ ("entity.id" :> entity_id)
         ELSE ("limit" :> Some(limit)) @@ ("cursor" :> cursor),
         NoBody)

FolkClient_create_interaction(entity_id, interaction_type, occurred_at) ==
    Plan("POST", Path("/interactions", <<>>), NoParams,
         JsonBody([entity |-> [id |-> entity_id], interactionType |-> interaction_type,
                   occurredAt |-> occurred_at]))

FolkClient_get_current_user ==
    Plan("GET", Path("/users/me", <<>>), NoParams, NoBody)

\* [{"id": uid} for uid in assigned_user_ids]
AssignedUsers(ids) == [i \in 1..Len(ids) |-> [id |-> ids[i]]]

\* A public reminder always fetches the current user, assignees given or not.
FolkClient_create_reminder_AlwaysFetch(entity_id, name, trigger_time, visibility, assigned_user_ids, localOffset, padYear) ==
    LET built == BuildRecurrenceRule(trigger_time, localOffset, padYear)
        body == [entity |-> [id |-> entity_id], name |-> name,
                 recurrenceRule |-> built.rule, visibility |-> visibility]
    IN  IF ~ built.ok
        THEN [ok |-> FALSE, error |-> built.error]
        ELSE IF visibility = "public"
        THEN [ok |-> TRUE, step |-> "current_user", plan |-> FolkClient_get_current_user,
              body |-> body]
        ELSE [ok |-> TRUE, step |-> "final",
              plan |-> Plan("POST", Path("/reminders", <<>>), NoParams, JsonBody(body)),
              body |-> body]

\* A reminder without assignees fetches the current user whatever its
\* visibility.
FolkClient_create_reminder_AssignsPrivate(entity_id, name, trigger_time, visibility, assigned_user_ids, localOffset, padYear) ==
    LET built == BuildRecurrenceRule(trigger_time, localOffset, padYear)
        body == [entity |-> [id |-> entity_id], name |-> name,
                 recurrenceRule |-> built.rule, visibility |-> visibility]
    IN  IF ~ built.ok
        THEN [ok |-> FALSE, error |-> built.error]
        ELSE IF TruthyList(assigned_user_ids)
        THEN [ok |-> TRUE, step |-> "final",
              plan |-> Plan("POST", Path("/reminders", <<>>), NoParams,
                            JsonBody(body @@ [assignedUsers |->
                                                AssignedUsers(assigned_user_ids.v)])),
              body |-> body]
        ELSE [ok |-> TRUE, step |-> "current_user", plan |-> FolkClient_get_current_user,
              body |-> body]

\* create_reminder up to its first await (lines 503-531): the exception the
\* trigger time raises, or the call it makes first and the body it has built.
\* localOffset and padYear are the process's zone and C library.
FolkClient_create_reminder(entity_id, name, trigger_time, visibility, assigned_user_ids, localOffset, padYear) ==
    LET built == BuildRecurrenceRule(trigger_time, localOffset, padYear)
        body == [entity |-> [id |-> entity_id], name |-> name,
                 recurrenceRule |-> built.rule, visibility |-> visibility]
    IN  IF ~ built.ok
        THEN [ok |-> FALSE, error |-> built.error]
        ELSE IF TruthyList(assigned_user_ids)
        THEN [ok |-> TRUE, step |-> "final",
              plan |-> Plan("POST", Path("/reminders", <<>>), NoParams,
                            JsonBody(body @@ [assignedUsers |->
                                                AssignedUsers(assigned_user_ids.v)])),
              body |-> body]
        ELSE IF visibility = "public"
        THEN [ok |-> TRUE, step |-> "current_user", plan |-> FolkClient_get_current_user,
              body |-> body]
        ELSE [ok |-> TRUE, step |-> "final",
              plan |-> Plan("POST", Path("/reminders", <<>>), NoParams, JsonBody(body)),
              body |-> body]

\* The first of the supplied-or-known users assigned: a fixed id in place of
\* the one get_current_user returned.
FolkClient_create_reminder_assign_Fixed(body, current_user_id) ==
    Plan("POST", Path("/reminders", <<>>), NoParams,
         JsonBody(body @@ [assignedUsers |-> <<[id |-> "id_A"]>>]))

\* create_reminder after get_current_user returned (lines 529-531).
FolkClient_create_reminder_assign(body, current_user_id) ==
    Plan("POST", Path("/reminders", <<>>), NoParams,
         JsonBody(body @@ [assignedUsers |-> <<[id |-> current_user_id]>>]))

\* XResponse(**data).data of api_models.py: data must be a mapping (else
\* TypeError) whose "data" holds the entity (else pydantic's ValidationError).
ResponseData(value) ==
    IF value.t # "object" THEN Raise("TypeError", 0, <<"TypeError">>, PyNone)
    ELSE IF ~ value.data.present \/ "id" \notin DOMAIN value.data
    THEN Raise("ValidationError", 0, <<"ValidationError">>, PyNone)
    ELSE Return(value.data)

\* XListResponse(**data).data.items: items defaults to the empty list.
ResponseItems(value) ==
    IF value.t # "object" THEN Raise("TypeError", 0, <<"TypeError">>, PyNone)
    ELSE IF ~ value.data.present
    THEN Raise("ValidationError", 0, <<"ValidationError">>, PyNone)
    ELSE Return(IF "items" \in DOMAIN value.data THEN value.data.items ELSE <<>>)

----------------------------------------------------------------------------
(* Tool layer: server.py *)

\* The client created whether or not the environment holds a credential.
get_client_Unchecked(cl, api_key) ==
    IF cl # NoClient THEN [ok |-> TRUE, client |-> cl]
    ELSE [ok |-> TRUE, client |-> FolkClient(api_key)]

\* get_client (lines 142-153): the global client, created from the
\* environment's credential at first use.
get_client(cl, api_key) ==
    IF cl # NoClient THEN [ok |-> TRUE, client |-> cl]
    ELSE IF api_key = "" THEN [ok |-> FALSE, client |-> cl]
    ELSE [ok |-> TRUE, client |-> FolkClient(api_key)]

\* The report with the upstream message appended.
_report_api_error_WithMessage(e) ==
    <<"Folk API request failed (status=", e.status, ")", e.message>>

\* _report_api_error (lines 40-43): the text handed to ctx.error.
_report_api_error(e) == <<"Folk API request failed (status=", e.status, ")">>

ConfigError ==
    Raise("ValueError", 0, <<"FOLK_API_KEY environment variable is required">>, PyNone)

\* The ValueError of _validate_folk_id (lines 103-107): it names the value
\* and the expected format and points at the lookup tools.
InvalidIdError(value) ==
    Raise("ValueError", 0,
          <<"Invalid ID ", value, "Folk IDs are prefix + UUID v4 format",
            "Call find_person or find_company first">>, PyNone)

TriggerError(type) == Raise(type, 0, <<type>>, PyNone)

NoOutcome == [kind |-> "none"]

Final == [step |-> "final"]

\* The invocation ends without having sent anything.
EndsWith(result, cl) ==
    /\ pc' = "done"
    /\ ctx_errors' = IF result = ConfigError THEN <<ConfigError.message>> ELSE <<>>
    /\ outcome' = result
    /\ client' = cl
    /\ pending' = NoReq
    /\ calls' = <<>>
    /\ replies' = <<>>
    /\ cont' = Final

\* The invocation calls _request(plan) and waits for the response:
\* _ensure_session, then the request goes out, unless its query cannot be
\* built: the TypeError is raised inside session.request and is no ClientError.
Sends(plan, cl, next) ==
    LET c == _ensure_session(cl)
        req == WireRequest(c, plan.method, plan.path, plan.params, plan.json)
    IN  IF QueryAccepted(req.params)
        THEN /\ pc' = "awaiting"
             /\ ctx_errors' = <<>>
             /\ outcome' = NoOutcome
             /\ client' = c
             /\ pending' = req
             /\ calls' = <<req>>
             /\ replies' = <<>>
             /\ cont' = next
        ELSE EndsWith(QueryTypeError(req.params), c)

\* A tool that validates idArg, gets the client and makes one client call.
ToolCall(name, idArg, args, plan) ==
    /\ pc = "idle"
    /\ op' = [layer |-> "tool", name |-> name, id |-> idArg, args |-> args]
    /\ UNCHANGED <<envKey, sessionVars, upstream, httpVars>>
    /\ IF ~ _validate_folk_id(idArg) THEN EndsWith(InvalidIdError(idArg), client)
       ELSE LET got == get_client(client, envKey)
            IN  IF ~ got.ok THEN EndsWith(ConfigError, client)
                ELSE Sends(plan, got.client, Final)

\* A tool that takes no id: it gets the client and makes one client call.
ToolWithoutId(name, args, plan) ==
    /\ pc = "idle"
    /\ op' = [layer |-> "tool", name |-> name, id |-> <<>>, args |-> args]
    /\ UNCHANGED <<envKey, sessionVars, upstream, httpVars>>
    /\ LET got == get_client(client, envKey)
       IN  IF ~ got.ok THEN EndsWith(ConfigError, client)
           ELSE Sends(plan, got.client, Final)

\* find_person (lines 191-194): list_people(limit=10, filters={"fullName": {"like": name}})
find_person(name) ==
    ToolWithoutId("find_person", [name |-> name],
                  FolkClient_list_people(Some(10), PyNone, Some("and"),
                        PyDict(<< <<"fullName", PyDict(<< <<"like", Some(name)>> >>)>> >>)))

\* browse_people (lines 378-385): list_people(limit=per_page), per_page clamped.
browse_people(page, per_page) ==
    ToolWithoutId("browse_people", [page |-> page, per_page |-> per_page],
                  FolkClient_list_people(
                        Some(IF per_page < 1 THEN 1 ELSE IF per_page > 50 THEN 50 ELSE per_page),
                        PyNone, Some("and"), PyNone))

\* The value of a person's field, None when the upstream left it out.
Field(person, key) == IF key \in DOMAIN person THEN person[key] ELSE PyNone

\* limit = min(max(limit, 1), 50)
Clamp(n) == IF n < 1 THEN 1 ELSE IF n > 50 THEN 50 ELSE n

\* The page number sent upstream as the cursor.
browse_companies_PageCursor(page, per_page) ==
    ToolWithoutId("browse_companies", [page |-> page, per_page |-> per_page],
                  FolkClient_list_companies(Some(Clamp(per_page)), Some(page), Some("and"),
                                            PyNone))

\* browse_companies (lines 439-442): list_companies(limit=per_page), per_page
\* clamped.
browse_companies(page, per_page) ==
    ToolWithoutId("browse_companies", [page |-> page, per_page |-> per_page],
                  FolkClient_list_companies(Some(Clamp(per_page)), PyNone, Some("and"),
                                            PyNone))

\* The entries browse_companies shows (lines 444-452).
ShownCompanies(companies) ==
    [i \in DOMAIN companies |->
        [id |-> companies[i].id, name |-> Field(companies[i], "name"),
         industry |-> Field(companies[i], "industry")]]

\* The entries get_notes shows (lines 1018-1027).
ShownNotes(notes) ==
    [i \in DOMAIN notes |->
        [id |-> notes[i].id, content |-> Field(notes[i], "content"),
         created_at |-> Field(notes[i], "createdAt")]]

UpperAlpha ==
    <<"A", "B", "C", "D", "E", "F", "G", "H", "I", "J", "K", "L", "M", "N", "O", "P", "Q",
      "R", "S", "T", "U", "V", "W", "X", "Y", "Z">>

LowerSeq ==
    <<"a", "b", "c", "d", "e", "f", "g", "h", "i", "j", "k", "l", "m", "n", "o", "p", "q",
      "r", "s", "t", "u", "v", "w", "x", "y", "z">>

\* str.lower()
lower(text) ==
    [i \in DOMAIN text |->
        IF \E k \in 1..26 : UpperAlpha[k] = text[i]
        THEN LowerSeq[CHOOSE k \in 1..26 : UpperAlpha[k] = text[i]]
        ELSE text[i]]

\* sub in text
In(sub, text) ==
    \E start \in 0..(Len(text) - Len(sub)) : SubSeq(text, start + 1, start + Len(sub)) = sub

\* next((g for g in groups if ...), None), by the index of the first hit
FirstOf(groups, hits) ==
    IF hits = {} THEN PyNone
    ELSE Some(groups[CHOOSE i \in hits : \A j \in hits : i <= j])

\* The substring match tried before the exact one.
resolve_group_SubstringFirst(groups, group_name) ==
    FirstOf(groups, {i \in DOMAIN groups : In(lower(group_name), lower(groups[i].name))})

\* Lines 538-549 (and 644-655): the first group whose name is the query
\* ignoring case, else the first whose name contains it.
resolve_group(groups, group_name) ==
    LET exact == FirstOf(groups, {i \in DOMAIN groups :
                                        lower(groups[i].name) = lower(group_name)})
    IN  IF exact # PyNone THEN exact
        ELSE FirstOf(groups, {i \in DOMAIN groups :
                                    In(lower(group_name), lower(groups[i].name))})

\* Every group name of the listing.
available_groups_All(groups) == [i \in DOMAIN groups |-> groups[i].name]

\* [g.name for g in groups[:10]]
available_groups(groups) ==
    [i \in 1..(IF Len(groups) < 10 THEN Len(groups) ELSE 10) |-> groups[i].name]

\* The result of lines 552-558 (and 658-664).
GroupNotFound(groups, group_name) ==
    [found |-> FALSE,
     error |-> <<"Group '", group_name, "' not found">>,
     available_groups |-> available_groups(groups),
     hint |-> "Check the group name or use list_groups to see all available groups"]

\* filters[key] = value
DictSet(items, key, value) ==
    IF \E i \in DOMAIN items : items[i][1] = key
    THEN [i \in DOMAIN items |-> IF items[i][1] = key THEN <<key, value>> ELSE items[i]]
    ELSE Append(items, <<key, value>>)

\* The filters of lines 563-575 (and 669-681).
GroupFilters(group_id, status, custom_field, custom_value) ==
    LET groups == << <<"groups", PyDict(<< <<"in", PyDict(<< <<"id", Some(group_id)>> >>)>> >>)>> >>
        withStatus ==
            IF TruthyStr(status)
            THEN DictSet(groups, "customFieldValues." \o group_id \o ".Status",
                         PyDict(<< <<"in", status>> >>))
            ELSE groups
    IN  PyDict(IF TruthyStr(custom_field) /\ TruthyStr(custom_value)
               THEN DictSet(withStatus,
                            "customFieldValues." \o group_id \o "." \o custom_field.v,
                            PyDict(<< <<"in", custom_value>> >>))
               ELSE withStatus)

\* A group tool up to its first await: get_client and list_groups(limit=100).
GroupTool(name, group_name, status, custom_field, custom_value, limit) ==
    /\ pc = "idle"
    /\ op' = [layer |-> "tool", name |-> name, id |-> <<>>,
              args |-> [group_name |-> group_name, status |-> status,
                        custom_field |-> custom_field, custom_value |-> custom_value,
                        limit |-> limit]]
    /\ UNCHANGED <<envKey, sessionVars, upstream, httpVars>>
    /\ LET got == get_client(client, envKey)
       IN  IF ~ got.ok THEN EndsWith(ConfigError, client)
           ELSE Sends(FolkClient_list_groups(Some(100), PyNone), got.client,
                      [step |-> "groups"])

find_people_in_group(group_name, status, custom_field, custom_value, limit) ==
    GroupTool("find_people_in_group", group_name, status, custom_field, custom_value, limit)

find_companies_in_group(group_name, status, custom_field, custom_value, limit) ==
    GroupTool("find_companies_in_group", group_name, status, custom_field, custom_value,
              limit)

\* The listing call a group tool makes once the group is resolved.
GroupMembers(o, group) ==
    LET filters == GroupFilters(group.id, o.args.status, o.args.custom_field,
                                o.args.custom_value)
    IN  IF o.name = "find_people_in_group"
        THEN FolkClient_list_people(Some(Clamp(o.args.limit)), PyNone, Some("and"), filters)
        ELSE FolkClient_list_companies(Some(Clamp(o.args.limit)), PyNone, Some("and"),
                                       filters)

\* " ".join(full_name_parts), the parts being the truthy ones of first_name
\* and last_name.
JoinedName(person) ==
    LET first == Field(person, "firstName")
        last == Field(person, "lastName")
    IN  IF TruthyStr(first) /\ TruthyStr(last) THEN first.v \o " " \o last.v
        ELSE IF TruthyStr(first) THEN first.v
        ELSE IF TruthyStr(last) THEN last.v
        ELSE ""

\* " ".join(full_name_parts) or person.full_name or "Unknown"
\* (find_person 203, browse_people 394, find_people_in_group 585)
full_name(person) ==
    IF JoinedName(person) # "" THEN JoinedName(person)
    ELSE IF TruthyStr(Field(person, "fullName")) THEN Field(person, "fullName").v
    ELSE "Unknown"

\* " ".join(full_name_parts) or "Unknown" (update_person 850)
update_person_full_name(person) ==
    IF JoinedName(person) # "" THEN JoinedName(person) ELSE "Unknown"

\* The people of a listing as a tool shows them.
Shown(people) == [i \in DOMAIN people |-> [id |-> people[i].id, name |-> full_name(people[i])]]

get_person_details(person_id) ==
    ToolCall("get_person_details", person_id, <<>>, FolkClient_get_person(person_id))

get_company_details(company_id) ==
    ToolCall("get_company_details", company_id, <<>>, FolkClient_get_company(company_id))

\* emails = [email] if email else None
ListOfOne(x) == IF TruthyStr(x) THEN Some(<<x.v>>) ELSE PyNone

update_person(person_id, first_name, email) ==
    ToolCall("update_person", person_id, [first_name |-> first_name, email |-> email],
             FolkClient_update_person(person_id, first_name, PyNone, ListOfOne(email),
                                      ListOfOne(PyNone), PyNone))

update_company(company_id, name, website) ==
    ToolCall("update_company", company_id, [name |-> name, website |-> website],
             FolkClient_update_company(company_id, name, PyNone, ListOfOne(website)))

delete_person(person_id) ==
    ToolCall("delete_person", person_id, <<>>, FolkClient_delete_person(person_id))

delete_company(company_id) ==
    ToolCall("delete_company", company_id, <<>>, FolkClient_delete_company(company_id))

add_note(person_id, content) ==
    ToolCall("add_note", person_id, [content |-> content],
             FolkClient_create_note(person_id, content, "public"))

get_notes(person_id, limit) ==
    ToolCall("get_notes", person_id, [limit |-> limit],
             FolkClient_list_notes(Clamp(limit), PyNone, Some(person_id)))

log_interaction(person_id, interaction_type, when) ==
    ToolCall("log_interaction", person_id,
             [interaction_type |-> interaction_type, when |-> when],
             FolkClient_create_interaction(person_id, interaction_type, when))

\* What a create_reminder call does first, on client cl.
CreateReminderStarts(cl, first) ==
    IF ~ first.ok THEN EndsWith(TriggerError(first.error), cl)
    ELSE Sends(first.plan, cl, [step |-> first.step, body |-> first.body])

\* set_reminder (lines 1053-1065): a public reminder with no assignee list.
set_reminder(person_id, reminder, when) ==
    /\ pc = "idle"
    /\ op' = [layer |-> "tool", name |-> "set_reminder", id |-> person_id,
              args |-> [name |-> reminder, trigger |-> when, visibility |-> "public",
                        assigned |-> PyNone]]
    /\ UNCHANGED <<envKey, sessionVars, upstream, httpVars>>
    /\ IF ~ _validate_folk_id(person_id) THEN EndsWith(InvalidIdError(person_id), client)
       ELSE LET got == get_client(client, envKey)
            IN  IF ~ got.ok THEN EndsWith(ConfigError, client)
                ELSE \E localOffset \in LocalOffsets, padYear \in BOOLEAN :
                        CreateReminderStarts(got.client,
                            FolkClient_create_reminder(person_id, reminder, when.text,
                                "public", PyNone, localOffset, padYear))

----------------------------------------------------------------------------
(* Direct use of the client, as the tests of tests/test_api_client.py do   *)

create_reminder(entity_id, name, trigger, visibility, assigned_user_ids) ==
    /\ pc = "idle"
    /\ client # NoClient
    /\ op' = [layer |-> "client", name |-> "create_reminder", id |-> entity_id,
              args |-> [name |-> name, trigger |-> trigger, visibility |-> visibility,
                        assigned |-> assigned_user_ids]]
    /\ UNCHANGED <<envKey, sessionVars, upstream, httpVars>>
    /\ \E localOffset \in LocalOffsets, padYear \in BOOLEAN :
            CreateReminderStarts(client,
                FolkClient_create_reminder(entity_id, name, trigger.text, visibility,
                                           assigned_user_ids, localOffset, padYear))

ClientCall(name, idArg, plan) ==
    /\ pc = "idle"
    /\ client # NoClient
    /\ op' = [layer |-> "client", name |-> name, id |-> idArg, args |-> <<>>]
    /\ UNCHANGED <<envKey, sessionVars, upstream, httpVars>>
    /\ Sends(plan, client, Final)

delete_note(note_id) == ClientCall("delete_note", note_id, FolkClient_delete_note(note_id))

delete_reminder(reminder_id) ==
    ClientCall("delete_reminder", reminder_id, FolkClient_delete_reminder(reminder_id))

\* A client method called with args.
ClientMethod(name, args, plan) ==
    /\ pc = "idle"
    /\ client # NoClient
    /\ op' = [layer |-> "client", name |-> name, id |-> <<>>, args |-> args]
    /\ UNCHANGED <<envKey, sessionVars, upstream, httpVars>>
    /\ Sends(plan, client, Final)

list_people(limit, cursor, combinator, filters) ==
    ClientMethod("list_people",
                 [limit |-> limit, cursor |-> cursor, combinator |-> combinator,
                  filters |-> filters],
                 FolkClient_list_people(limit, cursor, combinator, filters))

list_companies(limit, cursor, combinator, filters) ==
    ClientMethod("list_companies",
                 [limit |-> limit, cursor |-> cursor, combinator |-> combinator,
                  filters |-> filters],
                 FolkClient_list_companies(limit, cursor, combinator, filters))

list_deals(group_id, object_type, limit, cursor, combinator, filters) ==
    ClientMethod("list_deals",
                 [limit |-> limit, cursor |-> cursor, combinator |-> combinator,
                  filters |-> filters],
                 FolkClient_list_deals(group_id, object_type, limit, cursor, combinator,
                                       filters))

list_groups(limit, cursor) ==
    ClientMethod("list_groups", [limit |-> limit, cursor |-> cursor],
                 FolkClient_list_groups(limit, cursor))

list_notes(limit, cursor, entity_id) ==
    ClientMethod("list_notes",
                 [limit |-> Some(limit), cursor |-> cursor, entity_id |-> entity_id],
                 FolkClient_list_notes(limit, cursor, entity_id))

create_person(first_name, last_name, emails, phones, job_title, description, group_ids, company_ids, custom_fields) ==
    ClientMethod("create_person",
                 [first_name |-> first_name, last_name |-> last_name, emails |-> emails,
                  phones |-> phones, job_title |-> job_title, description |-> description,
                  group_ids |-> group_ids, company_ids |-> company_ids,
                  custom_fields |-> custom_fields],
                 FolkClient_create_person(first_name, last_name, emails, phones, job_title,
                                          description, group_ids, company_ids,
                                          custom_fields))

\* _request(method, path, json_data=...) itself, with and without a body.
_request(method, path, json_data) ==
    ClientCall("_request", path.id, Plan(method, path, NoParams, json_data))

----------------------------------------------------------------------------
(* The response arrives and the invocation runs on *)

\* What the client method returns from the decoded body, and the tool from
\* that.
MethodResult(o, value) ==
    IF o.name = "_request" THEN Return(value)
    ELSE IF o.name \in {"list_people", "list_companies", "list_deals", "list_groups",
                        "list_notes"}
    THEN ResponseItems(value)
    ELSE IF o.name \in {"delete_note", "delete_reminder"} THEN Return([t |-> "True"])
    ELSE IF o.name \in {"delete_person", "delete_company"}
    THEN Return([id |-> o.id, deleted |-> TRUE])
    ELSE IF o.name = "find_companies_in_group"
    THEN LET companies == ResponseItems(value)
         IN  IF companies.kind = "raise" THEN companies
             ELSE Return([found |-> Len(companies.value) > 0,
                          total |-> Len(companies.value)])
    ELSE IF o.name \in {"browse_companies", "get_notes"}
    THEN LET listed == ResponseItems(value)
         IN  IF listed.kind = "raise" THEN listed
             ELSE IF \E i \in DOMAIN listed.value : "id" \notin DOMAIN listed.value[i]
             THEN Raise("ValidationError", 0, <<"ValidationError">>, PyNone)
             ELSE IF o.name = "get_notes"
             THEN Return([notes |-> ShownNotes(listed.value)])
             ELSE Return([companies |-> ShownCompanies(listed.value), page |-> o.args.page,
                          per_page |-> Clamp(o.args.per_page),
                          has_more |-> Len(listed.value) = Clamp(o.args.per_page)])
    ELSE IF o.name \in {"find_person", "browse_people", "find_people_in_group"}
    THEN LET people == ResponseItems(value)
         IN  IF people.kind = "raise" THEN people
             ELSE IF \E i \in DOMAIN people.value : "id" \notin DOMAIN people.value[i]
             THEN Raise("ValidationError", 0, <<"ValidationError">>, PyNone)
             ELSE IF o.name \in {"find_person", "find_people_in_group"}
             THEN Return([found |-> Len(people.value) > 0, matches |-> Shown(people.value),
                          total |-> Len(people.value)])
             ELSE Return([people |-> Shown(people.value), page |-> o.args.page,
                          per_page |-> Clamp(o.args.per_page),
                          has_more |-> Len(people.value) = Clamp(o.args.per_page)])
    ELSE LET data == ResponseData(value)
         IN  IF data.kind = "raise" THEN data
             ELSE IF o.name = "update_person"
             THEN Return([id |-> data.value.id, name |-> update_person_full_name(data.value),
                          updated |-> TRUE])
             ELSE Return([id |-> data.value.id, by |-> o.name])

\* The awaited call fails or is the invocation's last: the invocation ends.
ResponseEnds(resp) ==
    /\ pc = "awaiting"
    /\ LET r == _request_response(pending, resp)
       IN  /\ r.kind = "raise" \/ cont.step = "final"
           /\ outcome' = IF r.kind = "raise" THEN r ELSE MethodResult(op, r.value)
           /\ ctx_errors' = IF op.layer = "tool" /\ r.kind = "raise" /\ r.type = "FolkAPIError"
                            THEN Append(ctx_errors, _report_api_error(r))
                            ELSE ctx_errors
    /\ pc' = "done"
    /\ pending' = NoReq
    /\ cont' = Final
    /\ replies' = Append(replies, resp)
    /\ UNCHANGED <<envKey, client, op, calls, sessionVars, upstream, httpVars>>

\* get_current_user returns inside create_reminder: the user's id goes into
\* the body and the POST is sent, or UserResponse(**data) raises.
CurrentUserReturns(resp) ==
    /\ pc = "awaiting"
    /\ cont.step = "current_user"
    /\ LET r == _request_response(pending, resp)
       IN  /\ r.kind = "return"
           /\ LET user == ResponseData(r.value)
              IN  IF user.kind = "raise"
                  THEN /\ pc' = "done"
                       /\ outcome' = user
                       /\ pending' = NoReq
                       /\ cont' = Final
                       /\ UNCHANGED <<client, calls>>
                  ELSE LET plan == FolkClient_create_reminder_assign(cont.body,
                                                                     user.value.id)
                           c == _ensure_session(client)
                           req == WireRequest(c, plan.method, plan.path, plan.params,
                                              plan.json)
                       IN  /\ pc' = "awaiting"
                           /\ outcome' = NoOutcome
                           /\ pending' = req
                           /\ calls' = Append(calls, req)
                           /\ cont' = Final
                           /\ client' = c
    /\ replies' = Append(replies, resp)
    /\ UNCHANGED <<envKey, op, sessionVars, upstream, ctx_errors, httpVars>>

\* The groups an earlier invocation was given, used again.
FolkClient_list_groups_return_Memoized(value) ==
    IF upstream.before # PyNone THEN Return(upstream.before.v) ELSE ResponseItems(value)

\* What list_groups returns (api_client.py lines 580-582):
\* GroupListResponse(**data).data.items
FolkClient_list_groups_return(value) == ResponseItems(value)

\* list_groups returns inside a group tool: the group is resolved, and the
\* tool returns "not found" or lists the group's members.
GroupsReturn(resp) ==
    /\ pc = "awaiting"
    /\ cont.step = "groups"
    /\ LET r == _request_response(pending, resp)
       IN  /\ r.kind = "return"
           /\ LET groups == FolkClient_list_groups_return(r.value)
                  valid == /\ groups.kind = "return"
                           /\ \A i \in DOMAIN groups.value :
                                {"id", "name"} \subseteq DOMAIN groups.value[i]
                  group == resolve_group(groups.value, op.args.group_name)
                  plan == GroupMembers(op, group.v)
                  c == _ensure_session(client)
                  req == WireRequest(c, plan.method, plan.path, plan.params, plan.json)
                  ends(result) == /\ pc' = "done"
                                  /\ outcome' = result
                                  /\ pending' = NoReq
                                  /\ cont' = Final
                                  /\ UNCHANGED <<client, calls>>
              IN  IF ~ valid
                  THEN ends(IF groups.kind = "raise" THEN groups
                            ELSE Raise("ValidationError", 0, <<"ValidationError">>, PyNone))
                  ELSE IF group = PyNone
                  THEN ends(Return(GroupNotFound(groups.value, op.args.group_name)))
                  ELSE IF ~ QueryAccepted(req.params)
                  THEN ends(QueryTypeError(req.params))
                  ELSE /\ pc' = "awaiting"
                       /\ outcome' = NoOutcome
                       /\ pending' = req
                       /\ calls' = Append(calls, req)
                       /\ cont' = Final
                       /\ client' = c
    /\ replies' = Append(replies, resp)
    /\ UNCHANGED <<envKey, op, sessionVars, upstream, ctx_errors, httpVars>>

NoOp == [layer |-> "none", name |-> "none", id |-> <<>>, args |-> <<>>]

\* The workspace is followed by SpecRegroup only.
NoUpstream == [groups |-> <<>>, before |-> [t |-> "None"]]

\* What GET /groups is answered with when the workspace has these groups.
ListingResponse(groups) ==
    [net |-> FALSE, status |-> 200, ctype |-> "application/json", body |-> ListBody(groups)]

\* The workspace's groups change between two invocations: after a group
\* tool was answered with the listing, before the next invocation.
UpstreamChanges(groups) ==
    /\ pc = "done"
    /\ op.name \in {"find_people_in_group", "find_companies_in_group"}
    /\ replies # <<>>
    /\ replies[1] = ListingResponse(upstream.groups)
    /\ groups # upstream.groups
    /\ upstream' = [groups |-> groups, before |-> Some(upstream.groups)]
    /\ UNCHANGED <<envKey, client, pc, op, cont, pending, calls, replies, outcome,
                   sessionVars, ctx_errors, httpVars>>

\* FOLK_API_KEY is put into the environment of the running server, which
\* reads it at each get_client that finds no client (line 146).
CredentialSupplied ==
    /\ pc = "idle"
    /\ envKey = ""
    /\ envKey' = "key-1"
    /\ UNCHANGED <<client, pc, op, cont, pending, calls, replies, outcome, sessionVars,
                   upstream, ctx_errors, httpVars>>

\* The caller has the invocation's result or exception; the invocation is over.
InvocationOver ==
    /\ pc = "done"
    /\ pc' = "idle"
    /\ op' = NoOp
    /\ outcome' = NoOutcome
    /\ calls' = <<>>
    /\ replies' = <<>>
    /\ ctx_errors' = <<>>
    /\ UNCHANGED <<envKey, client, cont, pending, sessionVars, upstream, httpVars>>

----------------------------------------------------------------------------
(* HTTP transport: server.py HTTPAuthAndRateLimitMiddleware                *)

\* The span of the rate-limit window (cutoff = now - 60).
WindowSeconds == 60

\* The clock advances by TickSeconds up to MaxClock; at most MaxPassed
\* requests are followed into the application.
TickSeconds == 30

MaxClock == 120

MaxPassed == 3

\* _env_bool (lines 32-37), of values already stripped and lower-cased.
_env_bool(raw, default) ==
    IF raw = PyNone THEN default ELSE raw.v \in {"1", "true", "yes", "on"}

\* __init__ (lines 49-54), from MCP_HTTP_REQUIRE_AUTH, MCP_HTTP_AUTH_TOKEN
\* and int(MCP_HTTP_RATE_LIMIT_PER_MIN), 120 when unset.
HTTPAuthAndRateLimitMiddleware(require_auth, auth_token, rate_limit) ==
    [require_auth |-> _env_bool(require_auth, TRUE),
     auth_token |-> auth_token,
     rate_limit |-> LET n == IF rate_limit = PyNone THEN 120 ELSE rate_limit.v
                    IN  IF n < 1 THEN 1 ELSE n,
     _requests |-> <<>>]

\* _is_authorized (lines 62-72)
_is_authorized(self, path, header) ==
    IF path = "/health" THEN TRUE
    ELSE IF ~ self.require_auth THEN TRUE
    ELSE IF ~ TruthyStr(self.auth_token) THEN FALSE
    ELSE header = "Bearer " \o self.auth_token.v

\* while window and window[0] < cutoff: window.popleft()
RECURSIVE popleft_old(_, _)
popleft_old(window, cutoff) ==
    IF window # <<>> /\ window[1] < cutoff THEN popleft_old(Tail(window), cutoff)
    ELSE window

\* request.client.host if request.client else "unknown"
ClientKey(host) == IF host = PyNone THEN "unknown" ELSE host.v

\* A limiter that records every request.
_is_rate_limited_RecordsAll(self, path, host, now) ==
    LET key == ClientKey(host)
        before == IF key \in DOMAIN self._requests THEN self._requests[key] ELSE <<>>
    IN  [limited |-> FALSE, _requests |-> (key :> Append(before, now)) @@ self._requests]

\* _is_rate_limited (lines 74-87): the answer, and _requests as it leaves it.
_is_rate_limited(self, path, host, now) ==
    IF path = "/health" THEN [limited |-> FALSE, _requests |-> self._requests]
    ELSE LET key == ClientKey(host)
             before == IF key \in DOMAIN self._requests THEN self._requests[key] ELSE <<>>
             window == popleft_old(before, now - WindowSeconds)
         IN  IF Len(window) >= self.rate_limit
             THEN [limited |-> TRUE, _requests |-> (key :> window) @@ self._requests]
             ELSE [limited |-> FALSE,
                   _requests |-> (key :> Append(window, now)) @@ self._requests]

\* The rate limit consulted before the authorization.
dispatch_outcome_LimitFirst(self, host, path, header, now) ==
    LET limit == _is_rate_limited(self, path, host, now)
    IN  IF limit.limited THEN [status |-> 429, _requests |-> limit._requests]
        ELSE IF ~ _is_authorized(self, path, header)
        THEN [status |-> 401, _requests |-> limit._requests]
        ELSE [status |-> 200, _requests |-> limit._requests]

\* dispatch (lines 89-94): 401, 429, or the application's response (200
\* stands for it), and _requests as the request leaves it.
dispatch_outcome(self, host, path, header, now) ==
    IF ~ _is_authorized(self, path, header)
    THEN [status |-> 401, _requests |-> self._requests]
    ELSE LET limit == _is_rate_limited(self, path, host, now)
         IN  IF limit.limited THEN [status |-> 429, _requests |-> limit._requests]
             ELSE [status |-> 200, _requests |-> limit._requests]

NoResponse == [status |-> 0]

\* No HTTP request has been made; the middleware has its defaults.
NoHttpYet ==
    /\ clock = 0
    /\ middleware = HTTPAuthAndRateLimitMiddleware(PyNone, PyNone, PyNone)
    /\ passed = <<>>
    /\ http_response = NoResponse

\* One HTTP request goes through the middleware.
dispatch(host, path, header) ==
    /\ Len(passed) < MaxPassed
    /\ LET out == dispatch_outcome(middleware, host, path, header, clock)
       IN  /\ middleware' = [middleware EXCEPT !._requests = out._requests]
           /\ http_response' = [status |-> out.status, key |-> ClientKey(host), path |-> path]
           /\ passed' = IF out.status = 200
                        THEN Append(passed, [key |-> ClientKey(host), path |-> path,
                                             at |-> clock])
                        ELSE passed
    /\ UNCHANGED <<envKey, client, pc, op, cont, pending, calls, replies, outcome,
                   sessionVars, ctx_errors, upstream, clock>>

\* Time passes.
Tick ==
    /\ clock + TickSeconds <= MaxClock
    /\ clock' = clock + TickSeconds
    /\ UNCHANGED <<envKey, client, pc, op, cont, pending, calls, replies, outcome,
                   sessionVars, ctx_errors, upstream, middleware, passed, http_response>>

----------------------------------------------------------------------------
(* Concurrent callers of the one client and its session objects            *)

\* Concurrent callers, and outbound calls followed.
MaxTasks == 2

MaxCalls == 3

Tasks == 1..MaxTasks

Idle(result) == [pc |-> "idle", result |-> result]

\* Nothing has been constructed and no caller has started.
NoSessionYet ==
    /\ sessions = <<>>
    /\ tasks = [t \in Tasks |-> Idle("none")]
    /\ wire = <<>>

\* The object self._session refers to: the last one _ensure_session made.
SharedSession(log) ==
    CHOOSE i \in DOMAIN log :
        /\ log[i].by = "_ensure_session"
        /\ \A j \in DOMAIN log : j > i => log[j].by # "_ensure_session"

\* A caller runs get_client()._request(method, ...) up to the await of the
\* HTTP exchange; no await that suspends comes before it, so the step is
\* atomic. _ensure_session (lines 68-79) constructs a session when
\* self._session is falsy; a DELETE without a body constructs one of its own
\* (line 122); any other call goes out on self._session, which raises
\* RuntimeError when it has been closed.
SessionRequest(t, method, json_data) ==
    /\ tasks[t].pc = "idle"
    /\ Len(wire) < MaxCalls
    /\ LET got == get_client(client, envKey)
           c == _ensure_session(got.client)
           made == IF got.client.session.open THEN sessions
                   ELSE Append(sessions, [by |-> "_ensure_session", closed |-> FALSE])
           call(session) == [task |-> t, method |-> method, json |-> json_data,
                             session |-> session]
       IN  IF ~ got.ok
           THEN /\ tasks' = [tasks EXCEPT ![t] = Idle("ValueError")]
                /\ UNCHANGED <<client, sessions, wire>>
           ELSE /\ client' = c
                /\ IF method = "DELETE" /\ json_data = NoBody
                   THEN /\ sessions' = Append(made, [by |-> "_request", closed |-> FALSE])
                        /\ wire' = Append(wire, call(Len(made) + 1))
                        /\ tasks' = [tasks EXCEPT ![t] = [pc |-> "awaiting", result |-> "none"]]
                   ELSE IF made[SharedSession(made)].closed
                   THEN /\ sessions' = made
                        /\ wire' = wire
                        /\ tasks' = [tasks EXCEPT ![t] = Idle("RuntimeError")]
                   ELSE /\ sessions' = made
                        /\ wire' = Append(wire, call(SharedSession(made)))
                        /\ tasks' = [tasks EXCEPT ![t] = [pc |-> "awaiting", result |-> "none"]]
    /\ UNCHANGED <<envKey, pc, op, cont, pending, calls, replies, outcome, ctx_errors, upstream,
                   httpVars>>

\* The exchange of a caller is over.
SessionResponds(t) ==
    /\ tasks[t].pc = "awaiting"
    /\ tasks' = [tasks EXCEPT ![t] = Idle("done")]
    /\ UNCHANGED <<envKey, client, pc, op, cont, pending, calls, replies, outcome,
                   sessions, wire, ctx_errors, upstream, httpVars>>

\* close() up to its await (lines 83-84): the session is closed while
\* self._session still refers to it. With no session close() does nothing.
close_awaits(t) ==
    /\ tasks[t].pc = "idle"
    /\ client # NoClient
    /\ client.session.open
    /\ sessions' = [sessions EXCEPT ![SharedSession(sessions)].closed = TRUE]
    /\ tasks' = [tasks EXCEPT ![t] = [pc |-> "closing", result |-> "none"]]
    /\ UNCHANGED <<envKey, client, pc, op, cont, pending, calls, replies, outcome, wire,
                   ctx_errors, upstream, httpVars>>

\* close() after its await (line 85): self._session = None.
close_returns(t) ==
    /\ tasks[t].pc = "closing"
    /\ client' = [client EXCEPT !.session = NoSession]
    /\ tasks' = [tasks EXCEPT ![t] = Idle("done")]
    /\ UNCHANGED <<envKey, pc, op, cont, pending, calls, replies, outcome, sessions, wire,
                   ctx_errors, upstream, httpVars>>

----------------------------------------------------------------------------

Init ==
    /\ envKey \in {"", "key-1"}
    /\ client = NoClient
    /\ pc = "idle"
    /\ op = NoOp
    /\ cont = Final
    /\ pending = NoReq
    /\ calls = <<>>
    /\ replies = <<>>
    /\ outcome = NoOutcome
    /\ ctx_errors = <<>>
    /\ NoSessionYet
    /\ NoHttpYet
    /\ upstream = NoUpstream

Next ==
    \/ \E id \in IdInputs : get_person_details(id)
    \/ \E id \in IdInputs : get_company_details(id)
    \/ \E id \in IdInputs, first_name \in {PyNone, Some("Ann")},
          email \in {PyNone, Some(""), Some("ann@example.com")} :
            update_person(id, first_name, email)
    \/ \E id \in IdInputs, name \in {PyNone, Some("Acme")},
          website \in {PyNone, Some("https://acme.example")} :
            update_company(id, name, website)
    \/ \E id \in IdInputs : delete_person(id)
    \/ \E id \in IdInputs : delete_company(id)
    \/ \E id \in IdInputs : add_note(id, "met at the fair")
    \/ \E id \in IdInputs, limit \in {0, 10, 51} : get_notes(id, limit)
    \/ \E id \in IdInputs, when \in {"2026-01-28T09:00:00Z", "yesterday"} :
            log_interaction(id, "call", when)
    \/ \E id \in IdInputs, when \in CoreTriggers : set_reminder(id, "call back", when)
    \/ \E trigger \in CoreTriggers, visibility \in Visibilities, assigned \in AssigneeInputs :
            create_reminder(Id_per, "call back", trigger, visibility, assigned)
    \/ \E id \in {Id_per, Id_name} : delete_note(id)
    \/ \E id \in {Id_per, Id_name} : delete_reminder(id)
    \/ \E method \in {"GET", "POST", "PATCH", "DELETE"},
          json_data \in {NoBody, JsonBody([name |-> "x"])} :
            _request(method, Path("/people", Id_per), json_data)
    \/ \E resp \in Responses : ResponseEnds(resp)
    \/ \E resp \in Responses : CurrentUserReturns(resp)
    \/ InvocationOver
    \/ CredentialSupplied

Spec == Init /\ [][Next]_vars

\* The recurrence rule over every trigger time: create_reminder on a client
\* constructed directly, FolkClient(api_key="key-1").
InitRule ==
    /\ envKey = "key-1"
    /\ client = FolkClient("key-1")
    /\ pc = "idle"
    /\ op = NoOp
    /\ cont = Final
    /\ pending = NoReq
    /\ calls = <<>>
    /\ replies = <<>>
    /\ outcome = NoOutcome
    /\ ctx_errors = <<>>
    /\ NoSessionYet
    /\ NoHttpYet
    /\ upstream = NoUpstream

NextRule ==
    \/ \E trigger \in Triggers, visibility \in Visibilities,
          assigned \in {PyNone, Some(<<"usr_1">>)} :
            create_reminder(Id_per, "call back", trigger, visibility, assigned)
    \/ \E resp \in RuleResponses : ResponseEnds(resp)
    \/ \E resp \in RuleResponses : CurrentUserReturns(resp)
    \/ InvocationOver

SpecRule == InitRule /\ [][NextRule]_vars

\* The list operations and create_person, on a client constructed directly.
NextQuery ==
    \/ \E limit \in LimitInputs, cursor \in CursorInputs, combinator \in CombinatorInputs,
          filters \in FilterInputs :
            list_people(limit, cursor, combinator, filters)
    \/ \E limit \in LimitInputs, cursor \in CursorInputs, combinator \in CombinatorInputs,
          filters \in FilterInputs :
            list_companies(limit, cursor, combinator, filters)
    \/ \E limit \in LimitInputs, cursor \in CursorInputs, combinator \in CombinatorInputs,
          filters \in FilterInputs :
            list_deals(Id_grp, "deals", limit, cursor, combinator, filters)
    \/ \E limit \in LimitInputs, cursor \in CursorInputs : list_groups(limit, cursor)
    \/ \E limit \in {0, 20}, cursor \in CursorInputs,
          entity_id \in {PyNone, Some(<<>>), Some(Id_per)} :
            list_notes(limit, cursor, entity_id)
    \/ \E first_name \in NameInputs, last_name \in TextInputs, emails \in ListInputs,
          phones \in {PyNone}, job_title \in NameInputs, description \in TextInputs,
          group_ids \in ListInputs, company_ids \in {PyNone, Some(<<>>)},
          custom_fields \in CustomFieldInputs :
            create_person(first_name, last_name, emails, phones, job_title, description,
                          group_ids, company_ids, custom_fields)
    \/ \E resp \in QueryResponses : ResponseEnds(resp)
    \/ InvocationOver

SpecQuery == InitRule /\ [][NextQuery]_vars

\* The tools that show a person's name, answered with people.
NextPeople ==
    \/ \E name \in {"Ann", "Lee"} : find_person(name)
    \/ \E page \in {1, 2}, per_page \in {0, 2, 51} : browse_people(page, per_page)
    \/ \E id \in {Id_per, Id_name}, first_name \in {PyNone, Some("Ann")} :
            update_person(id, first_name, PyNone)
    \/ \E resp \in PeopleResponses : ResponseEnds(resp)
    \/ InvocationOver
    \/ CredentialSupplied

SpecPeople == Init /\ [][NextPeople]_vars

\* Tools of every shape (one call, a body-less delete, the reminder, the
\* group tools, a listing), answered with entities, listings and failures.
CallResponses ==
    {[net |-> FALSE, status |-> 200, ctype |-> "application/json",
      body |-> JObject(Absent, Absent, [present |-> TRUE, id |-> "id_A"])],
     [net |-> FALSE, status |-> 200, ctype |-> "application/json",
      body |-> ListBody(GroupListing(<<Name_Sales, Name_SalesPipeline>>))],
     [net |-> FALSE, status |-> 200, ctype |-> "application/json", body |-> ListBody(<<>>)],
     [net |-> FALSE, status |-> 204, ctype |-> "", body |-> EmptyBody],
     [net |-> FALSE, status |-> 404, ctype |-> "application/json",
      body |-> JObject(Absent, [k |-> "str", text |-> "top message"], NoData)]}
    \cup NetFailures

NextCalls ==
    \/ \E id \in {Id_per, Id_name} : get_person_details(id)
    \/ \E id \in {Id_per, Id_name} : delete_person(id)
    \/ \E id \in {Id_per, Id_name}, when \in CoreTriggers : set_reminder(id, "call back", when)
    \/ \E group_name \in {Name_Sales, <<"z", "z", "z">>}, status \in {PyNone, Some("Won")} :
            find_people_in_group(group_name, status, PyNone, PyNone, 20)
    \/ \E group_name \in {Name_Sales, <<"z", "z", "z">>} :
            find_companies_in_group(group_name, PyNone, PyNone, PyNone, 20)
    \/ \E per_page \in {20} : browse_people(1, per_page)
    \/ \E resp \in CallResponses : ResponseEnds(resp)
    \/ \E resp \in CallResponses : CurrentUserReturns(resp)
    \/ \E resp \in CallResponses : GroupsReturn(resp)
    \/ InvocationOver
    \/ CredentialSupplied

SpecCalls == Init /\ [][NextCalls]_vars

\* The listings of a workspace whose groups are renamed, added and removed.
RegroupListings ==
    {<<[id |-> "grp_1", name |-> Name_Sales], [id |-> "grp_2", name |-> Name_SalesPipeline]>>,
     <<[id |-> "grp_2", name |-> Name_SalesPipeline], [id |-> "grp_1", name |-> Name_Sales]>>,
     <<[id |-> "grp_1", name |-> Name_Demos], [id |-> "grp_2", name |-> Name_SalesPipeline]>>,
     <<[id |-> "grp_2", name |-> Name_SalesPipeline]>>,
     <<[id |-> "grp_3", name |-> Name_SALES], [id |-> "grp_1", name |-> Name_Sales],
       [id |-> "grp_2", name |-> Name_SalesPipeline]>>,
     <<>>}

InitRegroup ==
    /\ envKey \in {"", "key-1"}
    /\ client = NoClient
    /\ pc = "idle"
    /\ op = NoOp
    /\ cont = Final
    /\ pending = NoReq
    /\ calls = <<>>
    /\ replies = <<>>
    /\ outcome = NoOutcome
    /\ ctx_errors = <<>>
    /\ NoSessionYet
    /\ NoHttpYet
    /\ upstream \in {[groups |-> l, before |-> PyNone] : l \in RegroupListings}

\* The group tools, invoked again and again while the workspace changes.
NextRegroup ==
    \/ \E group_name \in {<<"s", "a", "l", "e", "s">>, <<"p", "i", "p", "e">>} :
            find_people_in_group(group_name, PyNone, PyNone, PyNone, 20)
    \/ \E group_name \in {<<"s", "a", "l", "e", "s">>, <<"p", "i", "p", "e">>} :
            find_companies_in_group(group_name, PyNone, PyNone, PyNone, 20)
    \/ GroupsReturn(ListingResponse(upstream.groups))
    \/ \E resp \in NetFailures : ResponseEnds(resp)
    \/ \E groups \in RegroupListings : UpstreamChanges(groups)
    \/ InvocationOver
    \/ CredentialSupplied

SpecRegroup == InitRegroup /\ [][NextRegroup]_vars

\* The HTTP transport under every configuration of the middleware.
InitHttp ==
    /\ envKey \in {"", "key-1"}
    /\ client = NoClient
    /\ pc = "idle"
    /\ op = NoOp
    /\ cont = Final
    /\ pending = NoReq
    /\ calls = <<>>
    /\ replies = <<>>
    /\ outcome = NoOutcome
    /\ ctx_errors = <<>>
    /\ NoSessionYet
    /\ upstream = NoUpstream
    /\ clock = 0
    /\ passed = <<>>
    /\ http_response = NoResponse
    /\ \E require_auth \in {PyNone, Some("false")}, auth_token \in {PyNone, Some("secret")},
          rate_limit \in {Some(0), Some(2)} :
            middleware = HTTPAuthAndRateLimitMiddleware(require_auth, auth_token, rate_limit)

NextHttp ==
    \/ \E host \in {Some("10.0.0.1"), PyNone}, path \in {"/health", "/mcp"},
          header \in {"Bearer secret", ""} :
            dispatch(host, path, header)
    \/ Tick

SpecHttp == InitHttp /\ [][NextHttp]_vars

\* The tools that take a page size, answered with listings.
NextBrowse ==
    \/ \E page \in PageInputs, per_page \in SizeInputs : browse_people(page, per_page)
    \/ \E page \in PageInputs, per_page \in SizeInputs : browse_companies(page, per_page)
    \/ \E id \in {Id_per, Id_name}, limit \in SizeInputs : get_notes(id, limit)
    \/ \E resp \in BrowseResponses : ResponseEnds(resp)
    \/ InvocationOver
    \/ CredentialSupplied

SpecBrowse == Init /\ [][NextBrowse]_vars

\* The group tools, answered with group listings.
NextGroups ==
    \/ \E group_name \in GroupQueries,
          by \in {<<PyNone, PyNone>>, <<Some("Won"), Some("Status")>>,
                  <<Some(""), Some("Priority")>>} :
            find_people_in_group(group_name, by[1], by[2],
                                 IF by[2] = PyNone THEN PyNone ELSE Some("High"), 20)
    \/ \E group_name \in GroupQueries, status \in {PyNone, Some("Won")} :
            find_companies_in_group(group_name, status, PyNone, PyNone, 51)
    \/ \E resp \in GroupResponses : ResponseEnds(resp)
    \/ \E resp \in GroupResponses : GroupsReturn(resp)
    \/ InvocationOver
    \/ CredentialSupplied

SpecGroups == Init /\ [][NextGroups]_vars

\* Concurrent callers of the one client: requests, deletes and close.
NextSession ==
    \/ \E t \in Tasks, method \in {"GET", "DELETE"} : SessionRequest(t, method, NoBody)
    \/ \E t \in Tasks, method \in {"POST", "DELETE"} :
            SessionRequest(t, method, JsonBody(<<>>))
    \/ \E t \in Tasks : SessionResponds(t)
    \/ \E t \in Tasks : close_awaits(t)
    \/ \E t \in Tasks : close_returns(t)
    \/ CredentialSupplied

SpecSession == Init /\ [][NextSession]_vars

----------------------------------------------------------------------------
(* Properties *)

IdTools ==
    {"get_person_details", "get_company_details", "update_person", "update_company",
     "delete_person", "delete_company", "add_note", "get_notes", "set_reminder",
     "log_interaction"}

ReminderOps == {"create_reminder", "set_reminder"}

IsCurrentUserCall(req) == req.method = "GET" /\ req.path.base = "/users/me"

IsCreateReminderCall(req) == req.method = "POST" /\ req.path.base = "/reminders"

\* The id grammar of the specification, read off the text: a prefix of 2 to 4
\* lower-case letters, an underscore and the five hex groups 8-4-4-4-12, and
\* nothing else.
InIdGrammar(s) ==
    \E k \in 2..4 :
        /\ Len(s) = k + 1 + 36
        /\ \A i \in 1..k : s[i] \in LowerAlpha
        /\ s[k + 1] = "_"
        /\ \A j \in 1..36 :
              IF j \in {9, 14, 19, 24} THEN s[k + 1 + j] = "-"
              ELSE s[k + 1 + j] \in LowerHex

\* C1: a tool that takes an id, given an id that is not in the id grammar,
\* fails with the validator's error and makes no outbound call (stated for a
\* server whose credential is configured, where nothing else stops the call).
C1_MalformedIdFailsBeforeNetwork ==
    (/\ pc # "idle" /\ op.layer = "tool" /\ op.name \in IdTools
     /\ ~ InIdGrammar(op.id)
     /\ envKey # "")
        => /\ pc = "done"
           /\ outcome = InvalidIdError(op.id)
           /\ calls = <<>>
           /\ pending = NoReq

\* The same for every id except a grammatical id followed by one newline.
C1_ExceptFinalNewline ==
    (/\ pc # "idle" /\ op.layer = "tool" /\ op.name \in IdTools
     /\ ~ InIdGrammar(op.id)
     /\ ~ (op.id # <<>> /\ op.id[Len(op.id)] = "\n"
            /\ InIdGrammar(SubSeq(op.id, 1, Len(op.id) - 1))))
        => /\ pc = "done"
           /\ outcome = InvalidIdError(op.id)
           /\ calls = <<>>
           /\ pending = NoReq

\* C2: create_reminder (and set_reminder through it) given a trigger time that
\* is no ISO-8601 timestamp ends with a ValueError and has sent nothing:
\* neither GET /users/me nor POST /reminders, whatever the visibility and the
\* assignees.
C2_UnparsableTriggerFailsBeforeNetwork ==
    (pc # "idle" /\ op.name \in ReminderOps /\ ~ op.args.trigger.iso)
        => /\ pc = "done"
           /\ calls = <<>>
           /\ pending = NoReq
           /\ outcome.kind = "raise"
           /\ outcome.type = "ValueError"
           /\ (op.layer = "client" \/ (InIdGrammar(op.id) /\ client # NoClient))
                 => outcome = TriggerError("ValueError")

C2_Witness ==
    /\ pc = "done"
    /\ op.name = "set_reminder"
    /\ InIdGrammar(op.id)
    /\ ~ op.args.trigger.iso
    /\ op.args.trigger.text # <<>>
    /\ outcome = TriggerError("ValueError")

\* The UTC date and time of a well-formed trigger time, by the calendar: the
\* offset is taken off the time of day and the date moves back or forward
\* one day at a time.
LeapYear(y) == (y % 4 = 0 /\ y % 100 # 0) \/ y % 400 = 0

MonthLength(y, m) ==
    IF m \in {4, 6, 9, 11} THEN 30
    ELSE IF m = 2 THEN (IF LeapYear(y) THEN 29 ELSE 28)
    ELSE 31

DayBefore(d) ==
    IF d[3] > 1 THEN <<d[1], d[2], d[3] - 1>>
    ELSE IF d[2] > 1 THEN <<d[1], d[2] - 1, MonthLength(d[1], d[2] - 1)>>
    ELSE <<d[1] - 1, 12, 31>>

DayAfter(d) ==
    IF d[3] < MonthLength(d[1], d[2]) THEN <<d[1], d[2], d[3] + 1>>
    ELSE IF d[2] < 12 THEN <<d[1], d[2] + 1, 1>>
    ELSE <<d[1] + 1, 1, 1>>

UtcOf(trigger) ==
    LET minutes == trigger.time[1] * 60 + trigger.time[2] - trigger.zone.minutes
        date == IF minutes < 0 THEN DayBefore(trigger.date)
                ELSE IF minutes >= 1440 THEN DayAfter(trigger.date)
                ELSE trigger.date
        m == IF minutes < 0 THEN minutes + 1440
             ELSE IF minutes >= 1440 THEN minutes - 1440
             ELSE minutes
    IN  [date |-> date, time |-> <<m \div 60, m % 60, trigger.time[3]>>]

Two(n) == <<DigitChar[(n \div 10) + 1], DigitChar[(n % 10) + 1]>>

\* YYYYMMDDTHHMMSS
Stamp(u) ==
    Two(u.date[1] \div 100) \o Two(u.date[1] % 100) \o Two(u.date[2]) \o Two(u.date[3])
        \o <<"T">> \o Two(u.time[1]) \o Two(u.time[2]) \o Two(u.time[3])

\* The lines of a text, split at "\n".
RECURSIVE Lines(_)
Lines(text) ==
    IF \A i \in DOMAIN text : text[i] # "\n" THEN <<text>>
    ELSE LET cut == CHOOSE i \in DOMAIN text :
                        text[i] = "\n" /\ \A j \in 1..(i - 1) : text[j] # "\n"
         IN  <<SubSeq(text, 1, cut - 1)>> \o Lines(SubSeq(text, cut + 1, Len(text)))

StartsWith(text, prefix) ==
    Len(text) >= Len(prefix) /\ SubSeq(text, 1, Len(prefix)) = prefix

\* What follows 'DTSTART;TZID=UTC:' on the rule's first line.
DtstartOf(rule) ==
    LET first == Lines(rule)[1]
    IN  SubSeq(first, Len(Text_DtstartPrefix) + 1, Len(first))

RuleOf(req) == req.json.fields.recurrenceRule

ExplicitZone(trigger) == trigger.iso /\ trigger.zone.kind \in {"Z", "offset"}

\* C3: for a trigger time with a numeric offset or a Z, the datetime after
\* 'DTSTART;TZID=UTC:' in the rule create_reminder sends is the input instant
\* in UTC, written YYYYMMDDTHHMMSS.
C3_DtstartIsUtcInstant ==
    \A i \in DOMAIN calls :
        (IsCreateReminderCall(calls[i]) /\ ExplicitZone(op.args.trigger))
            => /\ StartsWith(RuleOf(calls[i]), Text_DtstartPrefix)
               /\ DtstartOf(RuleOf(calls[i])) = Stamp(UtcOf(op.args.trigger))

\* The same for the trigger times whose UTC year has four digits.
C3_FromYear1000 ==
    \A i \in DOMAIN calls :
        (/\ IsCreateReminderCall(calls[i]) /\ ExplicitZone(op.args.trigger)
         /\ UtcOf(op.args.trigger).date[1] >= 1000)
            => /\ StartsWith(RuleOf(calls[i]), Text_DtstartPrefix)
               /\ DtstartOf(RuleOf(calls[i])) = Stamp(UtcOf(op.args.trigger))

\* A day, month or year boundary is crossed on the way to UTC and the rule
\* is sent.
C3_BoundaryCrossed ==
    /\ pc = "awaiting"
    /\ IsCreateReminderCall(pending)
    /\ ExplicitZone(op.args.trigger)
    /\ UtcOf(op.args.trigger).date[1] # op.args.trigger.date[1]
    /\ DtstartOf(RuleOf(pending)) = Stamp(UtcOf(op.args.trigger))

\* 8 digits, "T", 6 digits
IsStamp(text) ==
    /\ Len(text) = 15
    /\ \A i \in 1..8 : text[i] \in Digit
    /\ text[9] = "T"
    /\ \A i \in 10..15 : text[i] \in Digit

\* C4: the rule in the POST /reminders body has exactly two lines: line 1 is
\* 'DTSTART;TZID=UTC:' and 8 digits, 'T', 6 digits, with no Z after them;
\* line 2 is 'RRULE:FREQ=DAILY;COUNT=1'.
C4_RuleIsTwoLines ==
    \A i \in DOMAIN calls :
        IsCreateReminderCall(calls[i])
            => LET lines == Lines(RuleOf(calls[i]))
               IN  /\ Len(lines) = 2
                   /\ StartsWith(lines[1], Text_DtstartPrefix)
                   /\ IsStamp(SubSeq(lines[1], Len(Text_DtstartPrefix) + 1, Len(lines[1])))
                   /\ lines[2] = Text_RruleOnce

\* The same for the trigger times that reach UTC in a year of four digits.
C4_FromYear1000 ==
    \A i \in DOMAIN calls :
        (/\ IsCreateReminderCall(calls[i])
         /\ \/ ~ ExplicitZone(op.args.trigger) /\ op.args.trigger.date[1] \in 1001..9998
            \/ ExplicitZone(op.args.trigger) /\ UtcOf(op.args.trigger).date[1] >= 1000)
            => LET lines == Lines(RuleOf(calls[i]))
               IN  /\ Len(lines) = 2
                   /\ StartsWith(lines[1], Text_DtstartPrefix)
                   /\ IsStamp(SubSeq(lines[1], Len(Text_DtstartPrefix) + 1, Len(lines[1])))
                   /\ lines[2] = Text_RruleOnce

LastCall == calls[Len(calls)]

LastReply == replies[Len(replies)]

\* The trigger time names an instant that UTC has a date for (years 1-9999).
Representable(trigger) ==
    /\ trigger.iso
    /\ IF ExplicitZone(trigger) THEN UtcOf(trigger).date[1] \in 1..9999
       ELSE trigger.date[1] \in 2..9998

\* create_reminder is running, or has run, on a trigger time it could turn
\* into a rule; through set_reminder, once the id and the credential let it
\* be called.
CreateReminderRan(visibility) ==
    /\ pc # "idle"
    /\ op.name \in ReminderOps
    /\ op.layer = "client" \/ calls # <<>>
    /\ Representable(op.args.trigger)
    /\ op.args.visibility = visibility

AssignedUsersOf(req) ==
    IF "assignedUsers" \in DOMAIN req.json.fields THEN req.json.fields.assignedUsers
    ELSE <<>>

\* C5: create_reminder with visibility "public" and no assignee list makes
\* exactly one call to fetch the current user, before the POST /reminders
\* call, and the POST body's assignedUsers is the one id that call returned.
C5_PublicWithoutAssigneesFetchesCurrentUser ==
    (CreateReminderRan("public") /\ op.args.assigned = PyNone)
        => /\ calls # <<>>
           /\ IsCurrentUserCall(calls[1])
           /\ Cardinality({i \in DOMAIN calls : IsCurrentUserCall(calls[i])}) = 1
           /\ Len(calls) <= 2
           /\ (pc = "done" /\ outcome.kind = "return") => Len(calls) = 2
           /\ Len(calls) = 2
                => /\ IsCreateReminderCall(calls[2])
                   /\ "assignedUsers" \in DOMAIN calls[2].json.fields
                   /\ AssignedUsersOf(calls[2]) = <<[id |-> replies[1].body.value.data.id]>>

\* The reminder is created after the current-user call returned id_B.
C5_Witness ==
    /\ CreateReminderRan("public") /\ op.args.assigned = PyNone
    /\ pc = "done"
    /\ outcome.kind = "return"
    /\ Len(calls) = 2
    /\ replies[1].body.value.data.id = "id_B"
    /\ AssignedUsersOf(calls[2]) = <<[id |-> "id_B"]>>

\* What C6 says of the call made with the assignee list assigned.
NoFetchAndIdsInOrder(assigned) ==
    /\ Len(calls) = 1
    /\ IsCreateReminderCall(calls[1])
    /\ "assignedUsers" \in DOMAIN calls[1].json.fields
    /\ Len(AssignedUsersOf(calls[1])) = Len(assigned)
    /\ \A i \in DOMAIN assigned : AssignedUsersOf(calls[1])[i] = [id |-> assigned[i]]

\* C6 (as stated): create_reminder with visibility "public" and any
\* assigned_user_ids other than None makes no call to fetch the current user
\* and sends exactly the supplied ids, in order, as assignedUsers.
C6_AnyListSkipsCurrentUser ==
    (CreateReminderRan("public") /\ op.args.assigned # PyNone)
        => NoFetchAndIdsInOrder(op.args.assigned.v)

\* C6 (amended): the same of every assigned_user_ids list that is not empty.
C6_NonEmptyListSkipsCurrentUser ==
    (/\ CreateReminderRan("public")
     /\ op.args.assigned # PyNone
     /\ op.args.assigned.v # <<>>)
        => NoFetchAndIdsInOrder(op.args.assigned.v)

\* A public reminder is sent with two supplied assignees, usr_2 before usr_1.
C6_Witness ==
    /\ CreateReminderRan("public")
    /\ op.args.assigned = Some(<<"usr_2", "usr_1">>)
    /\ pc = "awaiting"
    /\ IsCreateReminderCall(pending)
    /\ AssignedUsersOf(pending) = <<[id |-> "usr_2"], [id |-> "usr_1"]>>

\* An answer came from upstream (no network failure) and ended the invocation.
Answered ==
    /\ pc = "done"
    /\ replies # <<>>
    /\ ~ LastReply.net

\* C7: for a response with status 400 or higher, whatever the method and the
\* body, _request raises FolkAPIError with the response's status, and with
\* the decoded body as details when the body is JSON.
C7_ErrorStatusRaisesFolkAPIError ==
    (Answered /\ LastReply.status >= 400)
        => /\ outcome.kind = "raise"
           /\ outcome.type = "FolkAPIError"
           /\ outcome.status = LastReply.status
           /\ LastReply.body.kind = "json" => outcome.details = LastReply.body.value

\* The same for the responses whose body is JSON and is declared as JSON.
C7_JsonErrorBodies ==
    (/\ Answered /\ LastReply.status >= 400
     /\ LastReply.ctype = "application/json" /\ LastReply.body.kind = "json")
        => outcome = FolkAPIError(LastReply.status, error_msg(LastReply.body.value),
                                  LastReply.body.value)

\* C8: for every method, with or without a body, a 204 response with an
\* empty body makes _request return an empty result object, without error.
C8_NoContentReturnsEmptyResult ==
    (/\ Answered /\ op.name = "_request"
     /\ LastReply.status = 204 /\ LastReply.body.kind = "empty")
        => outcome = Return(EmptyDict)

BodylessDelete(req) == req.method = "DELETE" /\ ~ req.json.present

\* C9: a DELETE without a body answered with 204 and an empty body succeeds,
\* whatever the response says of its content type: _request returns {}, the
\* client's delete methods return True and the delete tools report deleted.
C9_BodylessDeleteNoContentSucceeds ==
    (Answered /\ BodylessDelete(LastCall) /\ LastReply.status = 204)
        => outcome = IF op.name = "_request" THEN Return(EmptyDict)
                     ELSE IF op.layer = "client" THEN Return([t |-> "True"])
                     ELSE Return([id |-> op.id, deleted |-> TRUE])

\* delete_reminder is answered 204 with no Content-Type and returns True.
C9_Witness ==
    /\ Answered
    /\ op.name = "delete_reminder"
    /\ BodylessDelete(LastCall)
    /\ LastReply = [net |-> FALSE, status |-> 204, ctype |-> "", body |-> EmptyBody]
    /\ outcome = Return([t |-> "True"])

\* C10: a DELETE sent without a JSON body has no Content-Type header and has
\* the bearer Authorization header; every other request has the
\* Authorization header and Content-Type application/json.
C10_HeadersOnTheWire ==
    \A i \in DOMAIN calls :
        /\ "Authorization" \in DOMAIN calls[i].headers
        /\ calls[i].headers["Authorization"] = <<"Bearer ", envKey>>
        /\ IF BodylessDelete(calls[i])
           THEN "Content-Type" \notin DOMAIN calls[i].headers
           ELSE /\ "Content-Type" \in DOMAIN calls[i].headers
                /\ calls[i].headers["Content-Type"] = <<"application/json">>

\* delete_company's DELETE is on the wire, with Authorization and without
\* Content-Type.
C10_Witness ==
    /\ pc = "awaiting"
    /\ op.name = "delete_company"
    /\ BodylessDelete(pending)
    /\ DOMAIN pending.headers = {"User-Agent", "Accept", "Authorization"}

Failed(resp) == resp.net \/ resp.status >= 400

\* C11: every network-level failure of an outbound call, a connection error
\* or a timeout, reaches the caller as FolkAPIError with status 500 and a
\* message that starts with 'Network error:'.
C11_TransportFailureIsFolkAPIError ==
    (pc = "done" /\ replies # <<>> /\ LastReply.net)
        => /\ outcome.kind = "raise"
           /\ outcome.type = "FolkAPIError"
           /\ outcome.status = 500
           /\ outcome.message[1] = "Network error: "

\* The same of the failures aiohttp raises as a ClientError.
C11_ConnectionErrors ==
    (pc = "done" /\ replies # <<>> /\ LastReply.net /\ LastReply.exc \in ClientErrors)
        => outcome = FolkAPIError(500, <<"Network error: ", LastReply.exc>>, PyNone)

\* C19: once an outbound call of an invocation has failed (status 400 or
\* higher, or a network failure), the invocation makes no further call and
\* ends with a FolkAPIError, the one _request raised.
C19_FailureEndsInvocationWithFolkAPIError ==
    \A i \in DOMAIN replies :
        Failed(replies[i])
            => /\ i = Len(replies)
               /\ Len(calls) = i
               /\ pc = "done"
               /\ outcome.kind = "raise"
               /\ outcome.type = "FolkAPIError"
               /\ outcome = _request_response(calls[i], replies[i])

\* No retry and no rewriting: after a failed call no further call is made,
\* and what _request raised, whatever it is, is what the caller gets.
C19_NoCallAfterFailure ==
    \A i \in DOMAIN replies :
        Failed(replies[i])
            => /\ i = Len(replies)
               /\ Len(calls) = i
               /\ pc = "done"
               /\ outcome.kind = "raise"
               /\ outcome = _request_response(calls[i], replies[i])

\* The arguments of the tool invocation are valid ones.
ValidToolArguments ==
    /\ pc # "idle"
    /\ op.layer = "tool"
    /\ op.name \in IdTools => InIdGrammar(op.id)

\* C20: with no credential configured a tool invocation with valid arguments
\* fails with the configuration error, makes no outbound call and leaves the
\* global client unset; one made once the credential is there creates the
\* client from it.
C20_NoCredentialFailsAtFirstUse ==
    /\ envKey = "" => client = NoClient
    /\ ValidToolArguments
        => IF envKey = ""
           THEN /\ pc = "done"
                /\ outcome = ConfigError
                /\ calls = <<>>
                /\ pending = NoReq
           ELSE /\ client # NoClient
                /\ client.api_key = envKey

\* delete_person has failed for want of a credential and the client is unset.
C20_Witness ==
    /\ ValidToolArguments
    /\ op.name = "delete_person"
    /\ envKey = ""
    /\ pc = "done"
    /\ outcome = ConfigError
    /\ client = NoClient

\* A tool invocation made after the credential was supplied creates the
\* client.
C20_ClientCreatedOnceSupplied ==
    [][(envKey # "" /\ client = NoClient /\ pc = "idle" /\ pc' # "idle"
            /\ op'.layer = "tool" /\ (op'.name \in IdTools => InIdGrammar(op'.id)))
        => client' # NoClient /\ client'.api_key = envKey]_vars

ListOps == {"list_people", "list_companies", "list_deals", "list_groups", "list_notes"}

FilteredListOps == {"list_people", "list_companies", "list_deals"}

TopLevelParameters == {"limit", "cursor", "combinator"}

\* The query of the request a client method has sent.
Query == calls[1].params

\* The filter fields given with a literal value, and the (field, operator)
\* pairs given in a mapping, as the query entries the encoding is to make of
\* them: <<key, value>>.
LiteralEntries(filters) ==
    {<<"filter[" \o filters[i][1] \o "]", filters[i][2]>> :
        i \in {j \in DOMAIN filters : filters[j][2].t # "dict"}}

OperatorEntriesOf(field, ops) ==
    {<<"filter[" \o field \o "][" \o ops[k][1] \o "]", ops[k][2]>> : k \in DOMAIN ops}

OperatorEntries(filters) ==
    UNION {OperatorEntriesOf(filters[i][1], filters[i][2].items) :
                i \in {j \in DOMAIN filters : filters[j][2].t = "dict"}}

FilterEntries(filters) ==
    IF filters = PyNone THEN {}
    ELSE LiteralEntries(filters.items) \cup OperatorEntries(filters.items)

NullEntries(filters) == {e \in FilterEntries(filters) : e[2] = PyNone}

ValueEntries(filters) == FilterEntries(filters) \ NullEntries(filters)

\* No filter operand is itself a mapping (the query of such filters cannot
\* be built, and no request goes out).
ScalarOperands(o) ==
    o.name \in FilteredListOps
        => \A e \in FilterEntries(o.args.filters) : e[2].t # "dict"

\* C12: a list operation sends its request, and in the query there is no
\* null value; each of limit, cursor and combinator is absent when null and
\* present with its value when not; a filter key whose value is null is
\* absent.
C12_NoNullQueryParameter ==
    (pc # "idle" /\ op.name \in ListOps /\ ScalarOperands(op))
        => /\ calls # <<>>
           /\ \A k \in DOMAIN Query : Query[k] # PyNone
           /\ \A p \in TopLevelParameters \cap DOMAIN op.args :
                IF op.args[p] = PyNone THEN p \notin DOMAIN Query
                ELSE p \in DOMAIN Query /\ Query[p] = op.args[p]
           /\ op.name \in FilteredListOps
                => \A e \in NullEntries(op.args.filters) :
                        (\A f \in ValueEntries(op.args.filters) : f[1] # e[1])
                            => e[1] \notin DOMAIN Query

\* list_people is sent with a limit of 0, no cursor, no combinator and a
\* filter whose value is null: the query is the limit alone.
C12_Witness ==
    /\ pc = "awaiting"
    /\ op.name = "list_people"
    /\ op.args.limit = Some(0)
    /\ op.args.cursor = PyNone
    /\ op.args.combinator = PyNone
    /\ op.args.filters = PyDict(<< <<"industry", PyNone>> >>)
    /\ DOMAIN pending.params = {"limit"}
    /\ pending.params["limit"] = Some(0)

\* C13: for every filters mapping given to list_people, list_companies or
\* list_deals a query goes out that has filter[<field>] = v for each literal
\* v, filter[<field>][<op>] = v for each {op: v}, and no other filter key.
C13_FiltersAreBracketKeys ==
    (pc # "idle" /\ op.name \in FilteredListOps)
        => /\ calls # <<>>
           /\ \A e \in ValueEntries(op.args.filters) :
                e[1] \in DOMAIN Query /\ Query[e[1]] = e[2]
           /\ \A k \in DOMAIN Query \ TopLevelParameters :
                \E e \in ValueEntries(op.args.filters) : e[1] = k

\* Every value of the filters is a string or null, and no two of their
\* fields and operators make the same key.
PlainFilters(filters) ==
    /\ \A e \in FilterEntries(filters) : e[2].t # "dict"
    /\ \A e, f \in FilterEntries(filters) : e[1] = f[1] => e = f

\* The same for the filters whose values are strings and whose keys differ.
C13_PlainFilters ==
    (pc # "idle" /\ op.name \in FilteredListOps /\ PlainFilters(op.args.filters))
        => /\ calls # <<>>
           /\ \A e \in ValueEntries(op.args.filters) :
                e[1] \in DOMAIN Query /\ Query[e[1]] = e[2]
           /\ \A k \in DOMAIN Query \ TopLevelParameters :
                \E e \in ValueEntries(op.args.filters) : e[1] = k

\* create_person's arguments and the body key of each.
CamelCaseKey ==
    [first_name |-> "firstName", last_name |-> "lastName", emails |-> "emails",
     phones |-> "phones", job_title |-> "jobTitle", description |-> "description",
     group_ids |-> "groupIds", company_ids |-> "companyIds",
     custom_fields |-> "customFieldValues"]

\* C16: every argument given to create_person with a non-null value is in
\* the POST /people body under its camelCase key, with that value.
C16_NonNullArgumentsInBody ==
    (pc # "idle" /\ op.name = "create_person")
        => /\ calls # <<>>
           /\ calls[1].method = "POST" /\ calls[1].path.base = "/people"
           /\ \A a \in DOMAIN op.args :
                op.args[a] # PyNone
                    => /\ CamelCaseKey[a] \in DOMAIN calls[1].json.fields
                       /\ calls[1].json.fields[CamelCaseKey[a]] = op.args[a]

\* The argument is a non-empty string, list or mapping.
NonEmptyArgument(a, x) ==
    /\ x # PyNone
    /\ IF a = "custom_fields" THEN x.items # <<>>
       ELSE IF a \in {"first_name", "last_name", "job_title", "description"} THEN x.v # ""
       ELSE x.v # <<>>

\* The same for the arguments that are not empty; the body has no other key.
C16_NonEmptyArgumentsInBody ==
    (pc # "idle" /\ op.name = "create_person")
        => /\ calls # <<>>
           /\ calls[1].method = "POST" /\ calls[1].path.base = "/people"
           /\ DOMAIN calls[1].json.fields =
                {CamelCaseKey[a] : a \in {b \in DOMAIN op.args : NonEmptyArgument(b, op.args[b])}}
           /\ \A a \in DOMAIN op.args :
                NonEmptyArgument(a, op.args[a])
                    => calls[1].json.fields[CamelCaseKey[a]] = op.args[a]

\* The name the rule gives a person: the non-empty ones of the first and the
\* last name joined by one space; else the upstream fullName; else Unknown.
Text(x) == IF x = PyNone THEN "" ELSE x.v

RuleName(person) ==
    LET first == Text(person.firstName)
        last == Text(person.lastName)
        full == Text(person.fullName)
    IN  IF first # "" /\ last # "" THEN first \o " " \o last
        ELSE IF first # "" \/ last # "" THEN first \o last
        ELSE IF full # "" THEN full
        ELSE "Unknown"

\* The people of the listing that answered the tool.
ListedPeople ==
    IF "items" \in DOMAIN LastReply.body.value.data THEN LastReply.body.value.data.items
    ELSE <<>>

\* The tool has returned a result made from the answer.
Returned(names) ==
    /\ Answered
    /\ op.name \in names
    /\ outcome.kind = "return"

\* C17: the display name in the results of find_person, browse_people and
\* update_person is the rule's name of the upstream person.
C17_DisplayNameFollowsRule ==
    /\ Returned({"find_person"})
        => /\ Len(outcome.value.matches) = Len(ListedPeople)
           /\ \A i \in DOMAIN outcome.value.matches :
                outcome.value.matches[i].name = RuleName(ListedPeople[i])
    /\ Returned({"browse_people"})
        => /\ Len(outcome.value.people) = Len(ListedPeople)
           /\ \A i \in DOMAIN outcome.value.people :
                outcome.value.people[i].name = RuleName(ListedPeople[i])
    /\ Returned({"update_person"})
        => outcome.value.name = RuleName(LastReply.body.value.data)

\* The same without update_person.
C17_ListingTools ==
    /\ Returned({"find_person"})
        => /\ Len(outcome.value.matches) = Len(ListedPeople)
           /\ \A i \in DOMAIN outcome.value.matches :
                outcome.value.matches[i].name = RuleName(ListedPeople[i])
    /\ Returned({"browse_people"})
        => /\ Len(outcome.value.people) = Len(ListedPeople)
           /\ \A i \in DOMAIN outcome.value.people :
                outcome.value.people[i].name = RuleName(ListedPeople[i])

\* update_person, when the person has a first or a last name.
C17_UpdatePersonWithNameParts ==
    (/\ Returned({"update_person"})
     /\ Text(LastReply.body.value.data.firstName) \o Text(LastReply.body.value.data.lastName) # "")
        => outcome.value.name = RuleName(LastReply.body.value.data)

\* ---- Group resolution (C14, C15) ---------------------------------------

GroupTools == {"find_people_in_group", "find_companies_in_group"}

\* Two characters that are the same letter, whatever their case.
SameLetter(c, d) ==
    c = d \/ \E k \in 1..26 : {c, d} = {UpperAlpha[k], LowerSeq[k]}

EqualIgnoringCase(a, b) ==
    Len(a) = Len(b) /\ \A i \in 1..Len(a) : SameLetter(a[i], b[i])

ContainsIgnoringCase(text, sub) ==
    \E start \in 0..(Len(text) - Len(sub)) :
        \A i \in 1..Len(sub) : SameLetter(text[start + i], sub[i])

\* A group tool has been answered, once, with a listing of groups.
GroupsListed ==
    /\ pc = "done"
    /\ op.name \in GroupTools
    /\ Len(replies) = 1
    /\ ~ replies[1].net
    /\ replies[1].status = 200
    /\ \A i \in DOMAIN replies[1].body.value.data.items :
            {"id", "name"} \subseteq DOMAIN replies[1].body.value.data.items[i]

Listed == replies[1].body.value.data.items

ExactHits == {i \in DOMAIN Listed : EqualIgnoringCase(Listed[i].name, op.args.group_name)}

SubstringHits ==
    {i \in DOMAIN Listed : ContainsIgnoringCase(Listed[i].name, op.args.group_name)}

\* The tool went on with this group: the membership filter it built names
\* the group's id.
WentOnWith(group) ==
    \/ /\ outcome.kind = "raise"
       /\ outcome.type = "TypeError"
       /\ outcome.message[2] = PyDict(<< <<"id", Some(group.id)>> >>)
    \/ /\ Len(calls) = 2
       /\ \E k \in DOMAIN calls[2].params : calls[2].params[k] = Some(group.id)

\* C14: the group tools resolve a group name first by exact
\* case-insensitive match, and only when none exists by the first group
\* whose name contains the query case-insensitively.
C14_ExactThenFirstSubstring ==
    GroupsListed =>
        /\ ExactHits # {} =>
                \E i \in ExactHits : /\ \A j \in ExactHits : i <= j
                                      /\ WentOnWith(Listed[i])
        /\ (ExactHits = {} /\ SubstringHits # {}) =>
                \E i \in SubstringHits : /\ \A j \in SubstringHits : i <= j
                                          /\ WentOnWith(Listed[i])

\* An exact match was preferred to an earlier group that only contains the
\* query.
C14_Witness ==
    /\ GroupsListed
    /\ \E i \in ExactHits : \E j \in SubstringHits \ ExactHits : j < i /\ WentOnWith(Listed[i])

\* No exact match: the first group containing the query was taken, though a
\* later one contains it too.
C14_WitnessSubstring ==
    /\ GroupsListed
    /\ ExactHits = {}
    /\ \E i, j \in SubstringHits : i < j /\ WentOnWith(Listed[i])

\* C15: when no group matches, the group tools return a structured
\* "not found" result with found = false, an error message, the names of the
\* first min(10, n) groups and a hint, and make no further call.
C15_NotFoundResult ==
    (GroupsListed /\ SubstringHits = {}) =>
        /\ outcome.kind = "return"
        /\ DOMAIN outcome.value = {"found", "error", "available_groups", "hint"}
        /\ outcome.value.found = FALSE
        /\ outcome.value.error = <<"Group '", op.args.group_name, "' not found">>
        /\ Len(outcome.value.available_groups)
                = (IF Len(Listed) < 10 THEN Len(Listed) ELSE 10)
        /\ \A i \in DOMAIN outcome.value.available_groups :
                outcome.value.available_groups[i] = Listed[i].name
        /\ Len(calls) = 1

\* More than ten groups were listed and none matched.
C15_Witness ==
    /\ GroupsListed
    /\ SubstringHits = {}
    /\ Len(Listed) > 10
    /\ outcome.kind = "return"
    /\ Len(outcome.value.available_groups) = 10

\* Fewer than ten groups were listed and none matched.
C15_WitnessShort ==
    /\ GroupsListed
    /\ SubstringHits = {}
    /\ Len(Listed) \in 1..9
    /\ outcome.kind = "return"
    /\ Len(outcome.value.available_groups) = Len(Listed)

\* ---- The shared session (C18) -------------------------------------------

OneSession ==
    /\ Len(sessions) <= 1
    /\ \A i \in DOMAIN wire : wire[i].session = 1

\* C18: under any interleaving of concurrent invocations and any sequence
\* of client operations, deletes and close among them, the HTTP session is
\* created at most once and every outbound call goes out on that session.
C18_SessionCreatedOnce == OneSession

\* C18, concurrent first use: as long as no DELETE without a body has gone
\* out and close has not run, the callers share one session however they
\* interleave.
C18_ConcurrentFirstUse ==
    (/\ \A i \in DOMAIN sessions : ~ sessions[i].closed
     /\ \A i \in DOMAIN wire : ~ (wire[i].method = "DELETE" /\ wire[i].json = NoBody))
        => OneSession

\* Two callers are awaiting their exchanges on the one session.
C18_WitnessConcurrent ==
    /\ \A t \in Tasks : tasks[t].pc = "awaiting"
    /\ Len(sessions) = 1
    /\ Len(wire) >= 2

\* After close, a call went out on a second session made by _ensure_session.
C18_WitnessAfterClose ==
    \E i \in DOMAIN wire : wire[i].session > 1 /\ sessions[wire[i].session].by = "_ensure_session"

\* ---- Page sizes (C21, C29) ----------------------------------------------

SizedTools == {"browse_people", "browse_companies", "get_notes"}

\* The page size the caller gave.
SizeGiven == IF op.name = "get_notes" THEN op.args.limit ELSE op.args.per_page

\* A sized tool was invoked with a credential and, for get_notes, a
\* well-formed id.
SizedInvocation ==
    /\ pc # "idle"
    /\ op.name \in SizedTools
    /\ envKey # ""
    /\ op.name = "get_notes" => _FOLK_ID_RE_match(op.id)

\* C21: a page size below 1 or above 50 fails with a validation error
\* before any network call is made.
C21_OutOfRangeSizeFailsBeforeNetwork ==
    (SizedInvocation /\ SizeGiven \notin 1..50) =>
        /\ calls = <<>>
        /\ pc = "done"
        /\ outcome.kind = "raise"

\* What the tools do with the size: whatever it is, the listing request
\* goes out with it brought into 1..50.
C21_SizeIsClamped ==
    SizedInvocation =>
        /\ calls # <<>>
        /\ calls[1].params["limit"] = Some(IF SizeGiven < 1 THEN 1
                                           ELSE IF SizeGiven > 50 THEN 50 ELSE SizeGiven)

\* ---- The diagnostic report (C22) -----------------------------------------

\* What a report may depend on: the operation and the status.
ReportOf(operation, status) == <<"Folk API request failed (status=", status, ")">>

\* A tool's upstream call failed with FolkAPIError.
UpstreamFailure ==
    /\ pc = "done"
    /\ op.layer = "tool"
    /\ outcome.kind = "raise"
    /\ outcome.type = "FolkAPIError"

\* C22: the report a tool emits for a failed upstream call is determined by
\* the operation and the status code alone; the upstream message and the raw
\* body are not in it, so two failures of one operation with one status and
\* different messages and bodies give the same report.
C22_ReportHasStatusOnly ==
    UpstreamFailure => ctx_errors = <<ReportOf(op.name, outcome.status)>>

\* A 404 whose body carried a nested message was reported.
C22_Witness ==
    /\ UpstreamFailure
    /\ outcome.status = 404
    /\ outcome.message = <<"nested message">>
    /\ outcome.details # PyNone
    /\ ctx_errors # <<>>

\* A 404 of the same operation with another message and body was reported.
C22_WitnessOtherMessage ==
    /\ UpstreamFailure
    /\ op.name = "get_person_details"
    /\ outcome.status = 404
    /\ outcome.message = <<"top message">>
    /\ ctx_errors # <<>>

\* Nothing else is handed to ctx.error, but the missing credential.
C22_NoOtherReport ==
    (pc = "done" /\ ~ UpstreamFailure) =>
        \/ ctx_errors = <<>>
        \/ outcome = ConfigError /\ ctx_errors = <<ConfigError.message>>

\* ---- Calls per invocation (C23) ------------------------------------------

\* Calls sent and not yet answered.
InFlight == Len(calls) - Len(replies)

\* The invocation creates a public reminder without an assignee list.
PublicReminderPath ==
    /\ op.name \in ReminderOps
    /\ op.args.visibility = "public"
    /\ op.args.assigned = PyNone \/ op.args.assigned.v = <<>>

\* The first call was answered with a user.
UserFetched ==
    /\ replies # <<>>
    /\ ~ replies[1].net
    /\ replies[1].status < 400
    /\ replies[1].body.kind = "json"
    /\ replies[1].body.value.t = "object"
    /\ replies[1].body.value.data.present
    /\ "id" \in DOMAIN replies[1].body.value.data

C23_WitnessGroupTool ==
    /\ op.name \in GroupTools
    /\ pc = "done"
    /\ Len(calls) = 1
    /\ Len(replies) = 1
    /\ outcome.kind = "raise"
    /\ outcome.type = "TypeError"

\* ---- The message of an error response (C24) ------------------------------

\* The order of the specification: error.message, error as a string, the
\* top-level message, the generic text.
MessageInOrder(result) ==
    IF result.error.k = "dict" /\ result.error.hasMessage THEN <<result.error.text>>
    ELSE IF result.error.k = "str" THEN <<result.error.text>>
    ELSE IF result.message.k # "absent" THEN <<result.message.text>>
    ELSE <<"Unknown error">>

\* A response with status 400 or higher and a JSON object as body ended the
\* invocation.
ErrorObjectAnswered ==
    /\ Answered
    /\ LastReply.status >= 400
    /\ LastReply.body.kind = "json"
    /\ LastReply.body.value.t = "object"

\* C24: the message of the FolkAPIError raised for a status of 400 or higher
\* with a JSON object body is error.message, else error as a string, else
\* the top-level message, else 'Unknown error'; an error object without a
\* message and a top-level message give the top-level message.
C24_MessageChosenInOrder ==
    ErrorObjectAnswered =>
        /\ outcome.kind = "raise"
        /\ outcome.type = "FolkAPIError"
        /\ outcome.message = MessageInOrder(LastReply.body.value)

\* The order holds of every body but one whose error is an object without
\* a message.
C24_OrderButBareErrorObject ==
    (/\ ErrorObjectAnswered
     /\ ~ (LastReply.body.value.error.k = "dict" /\ ~ LastReply.body.value.error.hasMessage))
        => /\ outcome.kind = "raise"
           /\ outcome.type = "FolkAPIError"
           /\ outcome.message = MessageInOrder(LastReply.body.value)

\* ---- A private reminder (C25) --------------------------------------------

\* C25: create_reminder with visibility 'private' and no assignee list
\* issues exactly one outbound call, POST /reminders, whose body has entity
\* {id: entity_id}, name, visibility and recurrenceRule and no assignedUsers,
\* and it never fetches the current user.
C25_PrivateWithoutAssigneesSendsOneCall ==
    (CreateReminderRan("private") /\ op.args.assigned = PyNone)
        => /\ Len(calls) = 1
           /\ IsCreateReminderCall(calls[1])
           /\ calls[1].json.present
           /\ DOMAIN calls[1].json.fields = {"entity", "name", "visibility", "recurrenceRule"}
           /\ calls[1].json.fields.entity = [id |-> op.id]
           /\ calls[1].json.fields.name = op.args.name
           /\ calls[1].json.fields.visibility = "private"
           /\ \A i \in DOMAIN calls : ~ IsCurrentUserCall(calls[i])

\* The private reminder was created: one call, answered with the reminder.
C25_Witness ==
    /\ CreateReminderRan("private") /\ op.args.assigned = PyNone
    /\ pc = "done"
    /\ outcome.kind = "return"
    /\ Len(calls) = 1
    /\ Len(replies) = 1

\* ---- No listing kept between invocations (C26) ---------------------------

\* The index of the group the specification's rule resolves name to in
\* listing, 0 when there is none.
ResolvedIn(listing, name) ==
    LET exact == {i \in DOMAIN listing : EqualIgnoringCase(listing[i].name, name)}
        containing == {i \in DOMAIN listing : ContainsIgnoringCase(listing[i].name, name)}
        first(hits) == CHOOSE i \in hits : \A j \in hits : i <= j
    IN  IF exact # {} THEN first(exact)
        ELSE IF containing # {} THEN first(containing)
        ELSE 0

IsGroupsCall(req) == req.method = "GET" /\ req.path.base = "/groups"

\* C26: every invocation of a group tool issues its own GET /groups call and
\* resolves the name against the listing that call returned, whatever an
\* earlier invocation was given: a group renamed, added or removed in
\* between is resolved according to the new listing.
C26_ResolvedAgainstOwnListing ==
    /\ (pc # "idle" /\ op.name \in GroupTools /\ envKey # "")
            => calls # <<>> /\ IsGroupsCall(calls[1])
    /\ GroupsListed =>
            LET at == ResolvedIn(Listed, op.args.group_name)
            IN  IF at = 0
                THEN outcome.kind = "return" /\ outcome.value.found = FALSE
                ELSE WentOnWith(Listed[at])

\* The second invocation was given a listing in which the name resolves to
\* another group than in the listing of the one before, and went on with
\* the group of its own listing.
C26_Witness ==
    /\ GroupsListed
    /\ upstream.before # PyNone
    /\ Listed = upstream.groups
    /\ ResolvedIn(Listed, op.args.group_name) # 0
    /\ ResolvedIn(upstream.before.v, op.args.group_name) # 0
    /\ Listed[ResolvedIn(Listed, op.args.group_name)].id
            # upstream.before.v[ResolvedIn(upstream.before.v, op.args.group_name)].id
    /\ WentOnWith(Listed[ResolvedIn(Listed, op.args.group_name)])

\* The group the name resolved to before has been removed: not found now.
C26_WitnessRemoved ==
    /\ GroupsListed
    /\ upstream.before # PyNone
    /\ Listed = upstream.groups
    /\ ResolvedIn(upstream.before.v, op.args.group_name) # 0
    /\ ResolvedIn(Listed, op.args.group_name) = 0
    /\ outcome.kind = "return"
    /\ outcome.value.found = FALSE

\* ---- The HTTP middleware (C27, C28) --------------------------------------

ClientKeys == {passed[i].key : i \in DOMAIN passed}

\* The requests of key to a path other than /health that were passed on
\* between from and from + WindowSeconds.
PassedInSpan(key, from) ==
    {i \in DOMAIN passed :
        /\ passed[i].key = key
        /\ passed[i].path # "/health"
        /\ passed[i].at >= from
        /\ passed[i].at <= from + WindowSeconds}

\* C27: for each client host, the requests to paths other than /health that
\* were admitted within any span of 60 seconds are never more than the
\* configured rate limit, which is at least 1; a request answered 429 is not
\* recorded, and /health requests are neither counted nor rejected.
C27_AdmittedWithinRateLimit ==
    /\ middleware.rate_limit >= 1
    /\ \A key \in ClientKeys : \A i \in DOMAIN passed :
            Cardinality(PassedInSpan(key, passed[i].at)) <= middleware.rate_limit
    /\ \A key \in DOMAIN middleware._requests :
            /\ Len(middleware._requests[key])
                    = Cardinality({i \in DOMAIN passed :
                                    /\ passed[i].key = key
                                    /\ passed[i].path # "/health"
                                    /\ passed[i].at >= middleware._requests[key][1]})
                \/ middleware._requests[key] = <<>>
    /\ http_response # NoResponse =>
            (http_response.path = "/health" => http_response.status = 200)

\* A host at its limit was answered 429 and, the window over, admitted again.
C27_Witness ==
    /\ middleware.rate_limit = 2
    /\ Len(passed) = 3
    /\ \A i \in DOMAIN passed : passed[i].key = "10.0.0.1" /\ passed[i].path = "/mcp"
    /\ passed[2].at = passed[1].at
    /\ passed[3].at > passed[1].at + WindowSeconds
    /\ http_response.status = 200

\* A host at its limit is answered 429 at the very end of the window.
C27_WitnessRejected ==
    /\ middleware.rate_limit = 1
    /\ Len(passed) = 1
    /\ passed[1].path = "/mcp"
    /\ clock = passed[1].at + WindowSeconds
    /\ http_response = [status |-> 429, key |-> passed[1].key, path |-> "/mcp"]

\* C28: a request answered 401 is not passed to the application and leaves
\* every client's rate-limit window as it was.
C28_UnauthorizedLeavesWindowsAlone ==
    [][(http_response'.status = 401 /\ clock' = clock)
            => (middleware' = middleware /\ passed' = passed)]_vars

\* Authorization comes first: where a token is required, an unauthorized
\* request is answered 401 even from a host that is at its limit, and the
\* windows hold admitted requests only.
C28_UnauthorizedNeverCounted ==
    /\ (middleware.require_auth /\ middleware.auth_token = PyNone)
            => \A key \in DOMAIN middleware._requests : middleware._requests[key] = <<>>
    /\ \A key \in DOMAIN middleware._requests :
            Len(middleware._requests[key])
                <= Cardinality({i \in DOMAIN passed :
                                    passed[i].key = key /\ passed[i].path # "/health"})

\* A host at its limit sends a request without the token and is answered 401.
C28_Witness ==
    /\ middleware.require_auth
    /\ middleware.auth_token # PyNone
    /\ http_response.status = 401
    /\ \E key \in DOMAIN middleware._requests :
            /\ key = http_response.key
            /\ Len(middleware._requests[key]) = middleware.rate_limit

\* ---- Browsing (C29) ------------------------------------------------------

BrowseTools == {"browse_people", "browse_companies"}

\* per_page brought into 1..50.
SizeInRange(n) == IF n < 1 THEN 1 ELSE IF n > 50 THEN 50 ELSE n

\* The entries of a browse result.
Browsed == IF op.name = "browse_people" THEN outcome.value.people ELSE outcome.value.companies

C29_WitnessNoMore ==
    /\ op.name \in BrowseTools
    /\ op.args.per_page = 51
    /\ pc = "done"
    /\ outcome.kind = "return"
    /\ Len(Browsed) = 2
    /\ ~ outcome.value.has_more

\* ---- Ids of another kind (C30) --------------------------------------------

PathIdTools == {"get_person_details", "update_person", "delete_person"}

IdToolInvoked == pc # "idle" /\ op.layer = "tool" /\ op.name \in IdTools /\ envKey # ""

\* C30: whether the validator accepts an id does not depend on the tool, that
\* is on the kind of entity: every id of the grammar passes it whatever its
\* prefix, and a tool of people forwards it in its request on people
\* (delete_person, get_person_details and update_person in the path, add_note
\* as the note's entity).
C30_PrefixIsNotChecked ==
    (IdToolInvoked /\ InIdGrammar(op.id)) =>
        /\ outcome # InvalidIdError(op.id)
        /\ op.name \in PathIdTools =>
                /\ calls # <<>>
                /\ calls[1].path = Path("/people", op.id)
        /\ op.name = "delete_person" => calls[1].method = "DELETE"
        /\ op.name = "add_note" =>
                /\ calls # <<>>
                /\ calls[1].method = "POST"
                /\ calls[1].path = Path("/notes", <<>>)
                /\ calls[1].json.fields.entity.id = op.id

\* delete_person given the id of a company: DELETE /people/com_...
C30_Witness ==
    /\ IdToolInvoked
    /\ op.name = "delete_person"
    /\ op.id = Id_com
    /\ calls # <<>>
    /\ calls[1].method = "DELETE"
    /\ calls[1].path = Path("/people", Id_com)

\* add_note given the id of a group: a note on entity grp_...
C30_WitnessNote ==
    /\ IdToolInvoked
    /\ op.name = "add_note"
    /\ op.id = Id_grp
    /\ calls # <<>>
    /\ calls[1].json.fields.entity.id = Id_grp

====
